---- MODULE Spec2Model ----
(***************************************************************************)
(* Model of the aviationwx VPN manager (scripts/vpn-manager.py and the     *)
(* protocol handlers under scripts/vpn-handlers/).                         *)
(*                                                                         *)
(* The specifications of this module share its variables:                  *)
(*   AllocSpec  the client address allocator, a pure function, applied to  *)
(*              subnets and in-use sets drawn from bounded sets;           *)
(*   WriteSpec  the artifact writers at the granularity of their system    *)
(*              calls (open, write/close, chmod, rename), with the reads   *)
(*              of an external reader interleaved at every state;          *)
(*   ParseSpec  parse_vpn_configs applied repeatedly to one configuration; *)
(*   SynthSpec  one cycle from the synthesis decision to the publishing;   *)
(*   ClientSpec the handlers' generate_client_config, a pure function,     *)
(*              applied to connections with and without their secrets;     *)
(*   Spec       the reconciliation loop, one action per step of a cycle;   *)
(*   LoopSpec   the loop of one site under weak fairness of its own steps, *)
(*              with signals and the loss of the configuration file;       *)
(*   ProbeSpec  the status checks and health probes of successive cycles,  *)
(*              with a clock;                                              *)
(*   StatusSpec the handlers' status and health checks, pure functions of  *)
(*              what the external tools do;                                *)
(*   ExportSpec the on-demand export of one site's client configuration;   *)
(*   PublishSpec the status checks and the publishing of one cycle;        *)
(*   ServerSpec the handlers' generate_server_config, a pure function;     *)
(*   ClockSpec  the loop of one site with a clock advanced by its sleeps;  *)
(*   HandlerSpec the server configuration, secrets file and client         *)
(*              configurations one handler generates for its group;        *)
(*   HealthSpec the handlers' health checks with the address they ping.    *)
(***************************************************************************)
EXTENDS Integers, Sequences, FiniteSets

VARIABLES
    \* ---- handler call harness (AllocSpec, ClientSpec)
    a_subnet,       \* the handler's vpn_subnet
    a_existing,     \* the configs passed to the handler method called
    a_result,       \* what the method returned or raised (NotCalled before)
    a_pc,           \* "call" | "done" (HandlerSpec: the call it is at)
    \* ---- artifact writers (WriteSpec)
    fs,             \* the file system: path -> file
    w_fn,           \* the writer function running, or "idle"
    w_i,            \* index of its next system call
    w_count,        \* writer calls started so far (the text written is its number)
    w_prev,         \* the file system when the running call started
    w_outcome,      \* how the last call ended: "none" | "returned" | "raised"
    w_error,        \* the exception a failed call re-raised or logged
    \* ---- the external configuration file (written by the operator)
    cfg_exists,     \* os.path.exists(CONFIG_PATH)
    cfg_mtime,      \* its modification time
    cfg,            \* its content: airport -> vpn record
    \* ---- VPNManager (Spec)
    running,        \* self.running
    connections,    \* self.connections: the resolved connections, in dict order
    config_mtime,   \* self.config_mtime
    pc,             \* where monitor_connections is in its cycle
    config_changed, \* the cycle's local config_changed
    config,         \* the cycle's local config (what load_config returned)
    vpn_configs,    \* the cycle's local vpn_configs
    faults,         \* system calls of the loop's writers that raised so far
    \* ---- history (read by no action)
    synth_mtime,    \* self.config_mtime when generate_configs last ran
    synth_failed,   \* a writer raised in the last generate_configs
    tracked_config, \* the config self.connections was parsed from
    \* ---- VPNManager's probing (ProbeSpec)
    now,            \* time.time(), in seconds
    connection_states,  \* self.connection_states: connection name -> status
    last_health_check,  \* self.last_health_check: connection name -> time
    \* ---- history of the probes (read by no action)
    probes          \* connection name -> its last probe and the least gap seen

allocVars == <<a_subnet, a_existing, a_result, a_pc>>

writeVars == <<fs, w_fn, w_i, w_count, w_prev, w_outcome, w_error>>

fileVars == <<cfg_exists, cfg_mtime, cfg>>

loopVars == <<running, connections, config_mtime, pc, config_changed, config,
              vpn_configs, faults, synth_mtime, synth_failed, tracked_config>>

probeVars == <<now, connection_states, last_health_check, probes>>

vars == <<allocVars, writeVars, fileVars, loopVars, probeVars>>

(***************************************************************************)
(* Addresses.  A dotted quad "a.b.c.d" is the tuple <<a, b, c, d>>; a CIDR *)
(* string "a.b.c.d/p" is a record of the address and the prefix length.    *)
(* The code compares addresses as strings, which for canonical decimal     *)
(* octets is equality of the tuples.                                       *)
(***************************************************************************)
Ip(a, b, c, d) == <<a, b, c, d>>

Cidr(ip, p) == [addr |-> ip, prefix |-> p]

\* client_ip absent from a record (vpn.get('client_ip') is None)
NoIp == <<>>

\* assign_client_ip raised "No available IPs in VPN subnet"
NoAvailableIps == [raised |-> "No available IPs in VPN subnet"]

\* str.split('/')[0] of a CIDR string: the address part
AddrOf(cidr) == cidr.addr

RECURSIVE Pow2(_)
Pow2(n) == IF n = 0 THEN 1 ELSE 2 * Pow2(n - 1)

\* The two 16-bit halves of an address (kept apart: 32-bit values overflow).
HiHalf(ip) == ip[1] * 256 + ip[2]
LoHalf(ip) == ip[3] * 256 + ip[4]

\* ip lies inside the block of subnet (same leading `mask` bits as its base).
InSubnet(ip, subnet) ==
    IF subnet.mask >= 16
    THEN /\ HiHalf(ip) = HiHalf(subnet.base)
         /\ LoHalf(ip) \div Pow2(32 - subnet.mask)
              = LoHalf(subnet.base) \div Pow2(32 - subnet.mask)
    ELSE HiHalf(ip) \div Pow2(16 - subnet.mask)
           = HiHalf(subnet.base) \div Pow2(16 - subnet.mask)

\* subnet base + k, for offsets that stay within the low 16 bits
BasePlus(subnet, k) ==
    LET lo == LoHalf(subnet.base) + k
    IN  Ip(subnet.base[1], subnet.base[2], lo \div 256, lo % 256)

(***************************************************************************)
(* The address allocator: VPNProtocolHandler.assign_client_ip.             *)
(***************************************************************************)

\* used_ips: the address part of every client_ip among existing_configs
UsedIps(existing_configs) ==
    { AddrOf(existing_configs[k].client_ip) :
        k \in { j \in 1..Len(existing_configs) :
                  existing_configs[j].client_ip # NoIp } }

\* start_ip = base_octet + 2 if base_octet == 0 else base_octet + 1
StartIp(subnet) ==
    IF subnet.base[4] = 0 THEN subnet.base[4] + 2 ELSE subnet.base[4] + 1

\* max_ip = 254 if mask >= 24 else 65534
MaxIp(subnet) == IF subnet.mask >= 24 THEN 254 ELSE 65534

\* The candidate address the loop builds for index i.
CandidateIp(subnet, i) ==
    IF subnet.mask >= 24
    THEN Ip(subnet.base[1], subnet.base[2], subnet.base[3], i)
    ELSE Ip(subnet.base[1], subnet.base[2], (i - 1) \div 256, (i - 1) % 256)

\* for i in range(start_ip, max_ip + 1): first candidate not in used_ips
RECURSIVE ScanFrom(_, _, _)
ScanFrom(subnet, used_ips, i) ==
    IF i > MaxIp(subnet)
    THEN NoAvailableIps
    ELSE IF CandidateIp(subnet, i) \notin used_ips
         THEN Cidr(CandidateIp(subnet, i), 32)
         ELSE ScanFrom(subnet, used_ips, i + 1)

assign_client_ip(subnet, existing_configs) ==
    ScanFrom(subnet, UsedIps(existing_configs), StartIp(subnet))

\* WireGuardHandler._get_server_ip_in_subnet: "<o1>.<o2>.<o3>.1"
_get_server_ip_in_subnet(subnet) ==
    Ip(subnet.base[1], subnet.base[2], subnet.base[3], 1)

(***************************************************************************)
(* Files.  A file holds a text, complete or not (an opened-for-write file  *)
(* is empty until its buffer is flushed, and a large text reaches the disk *)
(* in parts), and a permission mode.                                       *)
(***************************************************************************)

\* The final names of the artifacts the manager writes.
IPSEC_CONF    == "ipsec.conf"
IPSEC_SECRETS == "ipsec.secrets"
WG_CONF       == "wg0.conf"
OPENVPN_CONF  == "server.conf"
OPENVPN_PSK   == "psk.key"
STATUS_FILE   == "vpn-status.json"

\* f"{airport_id}_{protocol}_client.conf" in CLIENT_CONFIG_DIR
ClientConfPath(airport_id, protocol) ==
    airport_id \o "_" \o protocol \o "_client.conf"

\* The client config files: one per airport and per value the `protocol`
\* key of a resolved connection takes.
ClientPaths ==
    { ClientConfPath(id, protocol) :
        id \in {"kspb", "kbdn"},
        protocol \in {"ipsec", "wireguard", "openvpn", "udp"} }

ArtifactPaths ==
    { IPSEC_CONF, IPSEC_SECRETS, WG_CONF, OPENVPN_CONF, OPENVPN_PSK,
      STATUS_FILE } \cup ClientPaths

\* The artifacts that carry keys or pre-shared keys.
SecretPaths == { IPSEC_SECRETS, WG_CONF, OPENVPN_PSK } \cup ClientPaths

\* path + ".tmp"
Tmp(path) == path \o ".tmp"

TmpPaths == { Tmp(p) : p \in { IPSEC_SECRETS, WG_CONF, OPENVPN_CONF,
                                OPENVPN_PSK, STATUS_FILE } }

AllPaths == ArtifactPaths \cup TmpPaths

NoFile == [exists |-> FALSE, text |-> <<>>, complete |-> FALSE, mode |-> "none"]

\* The mode open(path, 'w') gives a file it creates: 0666 masked by the
\* process umask (022 for the service).
CreateMode == "0644"

\* open(path, 'w'): create the file or truncate it; an existing file keeps
\* its mode.
FsOpenW(f, path) ==
    [f EXCEPT ![path] =
        [exists |-> TRUE, text |-> <<>>, complete |-> FALSE,
         mode |-> IF f[path].exists THEN f[path].mode ELSE CreateMode]]

\* A flush of part of the buffered text before the file is closed.
FsFlushPart(f, path, text) ==
    [f EXCEPT ![path].text = <<text>>, ![path].complete = FALSE]

\* f.write(text) followed by the close at the end of the with block.
FsWriteClose(f, path, text) ==
    [f EXCEPT ![path].text = <<text>>, ![path].complete = TRUE]

\* os.chmod(path, mode)
FsChmod(f, path, mode) == [f EXCEPT ![path].mode = mode]

\* A rename that copies: dst becomes src's file and src stays.
FsRenameKeepsSource(f, src, dst) == [f EXCEPT ![dst] = f[src]]

\* os.rename(src, dst): dst becomes src's file in one step, src is gone.
FsRename(f, src, dst) == [f EXCEPT ![dst] = f[src], ![src] = NoFile]

\* os.remove(path)
FsRemove(f, path) == [f EXCEPT ![path] = NoFile]

(***************************************************************************)
(* The writers, each the list of system calls its code makes, in order.    *)
(***************************************************************************)
SysOpen(path)        == [call |-> "open",   path |-> path, arg |-> ""]
SysWrite(path)       == [call |-> "write",  path |-> path, arg |-> ""]
SysChmod(path, mode) == [call |-> "chmod",  path |-> path, arg |-> mode]
SysRename(src, dst)  == [call |-> "rename", path |-> src,  arg |-> dst]

\* VPNManager._write_ipsec_configs: ipsec.conf is written in place, then
\* ipsec.secrets through a temporary file.
_write_ipsec_configs ==
    << SysOpen(IPSEC_CONF), SysWrite(IPSEC_CONF),
       SysOpen(Tmp(IPSEC_SECRETS)), SysWrite(Tmp(IPSEC_SECRETS)),
       SysChmod(Tmp(IPSEC_SECRETS), "0600"),
       SysRename(Tmp(IPSEC_SECRETS), IPSEC_SECRETS) >>

\* VPNManager._write_wireguard_config
_write_wireguard_config ==
    << SysOpen(Tmp(WG_CONF)), SysWrite(Tmp(WG_CONF)),
       SysChmod(Tmp(WG_CONF), "0600"), SysRename(Tmp(WG_CONF), WG_CONF) >>

\* VPNManager._write_openvpn_configs: server.conf, then psk.key
_write_openvpn_configs ==
    << SysOpen(Tmp(OPENVPN_CONF)), SysWrite(Tmp(OPENVPN_CONF)),
       SysChmod(Tmp(OPENVPN_CONF), "0644"),
       SysRename(Tmp(OPENVPN_CONF), OPENVPN_CONF),
       SysOpen(Tmp(OPENVPN_PSK)), SysWrite(Tmp(OPENVPN_PSK)),
       SysChmod(Tmp(OPENVPN_PSK), "0600"),
       SysRename(Tmp(OPENVPN_PSK), OPENVPN_PSK) >>

\* VPNManager.generate_client_configs, the file of one connection: written
\* in place, permissions set afterwards.
write_client_config(filepath) ==
    << SysOpen(filepath), SysWrite(filepath), SysChmod(filepath, "0600") >>

\* VPNManager.update_status_file, its write: temporary file, then rename.
write_status_file ==
    << SysOpen(Tmp(STATUS_FILE)), SysWrite(Tmp(STATUS_FILE)),
       SysRename(Tmp(STATUS_FILE), STATUS_FILE) >>

WriterNames ==
    { "_write_ipsec_configs", "_write_wireguard_config",
      "_write_openvpn_configs", "generate_client_configs",
      "update_status_file" }

SysCalls(fn) ==
    CASE fn = "_write_ipsec_configs"    -> _write_ipsec_configs
      [] fn = "_write_wireguard_config" -> _write_wireguard_config
      [] fn = "_write_openvpn_configs"  -> _write_openvpn_configs
      [] fn = "generate_client_configs" ->
            write_client_config(ClientConfPath("kspb", "wireguard"))
      [] fn = "update_status_file"      -> write_status_file

\* The file system after one system call succeeded.
ApplySys(f, sys, text) ==
    CASE sys.call = "open"   -> FsOpenW(f, sys.path)
      [] sys.call = "write"  -> FsWriteClose(f, sys.path, text)
      [] sys.call = "chmod"  -> FsChmod(f, sys.path, sys.arg)
      [] sys.call = "rename" -> FsRename(f, sys.path, sys.arg)

\* What the except clause around the failed call does to the files: only the
\* inner handler of _write_ipsec_configs (around the ipsec.secrets part)
\* removes its temporary file; every other handler logs or re-raises.
OnError(f, fn, i) ==
    IF fn = "_write_ipsec_configs" /\ i >= 3 /\ f[Tmp(IPSEC_SECRETS)].exists
    THEN FsRemove(f, Tmp(IPSEC_SECRETS))
    ELSE f

\* No exception.
NoError == [type |-> "none", call |-> "", path |-> ""]

\* The OSError a failing system call raises: its text names the call's path.
OSErrorOf(sys) == [type |-> "OSError", call |-> sys.call, path |-> sys.path]

\* What leaves the writer's except clauses when `e` was raised inside: the
\* writers of the server artifacts log a fixed message and re-raise with a
\* bare `raise`, which raises `e` itself, and generate_configs logs it;
\* generate_client_configs and update_status_file log `e` themselves.
Reraised(fn, e) == e

(***************************************************************************)
(* WriteSpec: the writers, one system call per step.  Every state is one   *)
(* an external reader (a daemon, a viewer) can observe.                    *)
(***************************************************************************)

\* At most this many writer calls are started.
MaxWrites == 3

WriteIdle ==
    /\ fs = [p \in AllPaths |-> NoFile]
    /\ w_fn = "idle"
    /\ w_i = 0
    /\ w_count = 0
    /\ w_prev = [p \in AllPaths |-> NoFile]
    /\ w_outcome = "none"
    /\ w_error = NoError

\* A writer is called with a new text to write.
StartWrite ==
    /\ w_fn = "idle"
    /\ w_count < MaxWrites
    /\ \E fn \in WriterNames : w_fn' = fn
    /\ w_i' = 1
    /\ w_count' = w_count + 1
    /\ w_prev' = fs
    /\ w_outcome' = "none"
    /\ w_error' = NoError
    /\ UNCHANGED fs

\* The next system call of the running writer succeeds.
SysStep ==
    /\ w_fn # "idle"
    /\ w_i <= Len(SysCalls(w_fn))
    /\ fs' = ApplySys(fs, SysCalls(w_fn)[w_i], w_count)
    /\ w_i' = w_i + 1
    /\ UNCHANGED <<w_fn, w_count, w_prev, w_outcome, w_error>>

\* Part of the text reaches the disk before f.write and the close complete.
PartialFlush ==
    /\ w_fn # "idle"
    /\ w_i <= Len(SysCalls(w_fn))
    /\ SysCalls(w_fn)[w_i].call = "write"
    /\ fs[SysCalls(w_fn)[w_i].path].text = <<>>
    /\ fs' = FsFlushPart(fs, SysCalls(w_fn)[w_i].path, w_count)
    /\ UNCHANGED <<w_fn, w_i, w_count, w_prev, w_outcome, w_error>>

\* The next system call raises (OSError); the writer's except clause runs
\* and the call ends.
SysFail ==
    /\ w_fn # "idle"
    /\ w_i <= Len(SysCalls(w_fn))
    /\ fs' = OnError(fs, w_fn, w_i)
    /\ w_fn' = "idle"
    /\ w_i' = 0
    /\ w_outcome' = "raised"
    /\ w_error' = Reraised(w_fn, OSErrorOf(SysCalls(w_fn)[w_i]))
    /\ UNCHANGED <<w_count, w_prev>>

\* The writer returns after its last system call.
WriteReturn ==
    /\ w_fn # "idle"
    /\ w_i > Len(SysCalls(w_fn))
    /\ w_fn' = "idle"
    /\ w_i' = 0
    /\ w_outcome' = "returned"
    /\ UNCHANGED <<fs, w_count, w_prev, w_error>>

\* The text of the call in progress (or of the last call).
NewText == <<w_count>>

\* What a reader of `path` gets: nothing, or the bytes on disk.
ReadOf(f, path) ==
    IF f[path].exists THEN [text |-> f[path].text, complete |-> f[path].complete]
    ELSE [text |-> <<>>, complete |-> TRUE]

\* C1: a reader of an artifact's final path, at any point of a write, gets
\* either the complete content from before the write or the complete new
\* content, never an empty or partial file.
C1_ReadersSeeOldOrNew ==
    \A p \in ArtifactPaths :
        \/ ReadOf(fs, p) = ReadOf(w_prev, p)
        \/ ReadOf(fs, p) = [text |-> NewText, complete |-> TRUE]

\* C2: a secret-bearing file that exists under its final name has mode 0600.
C2_SecretsOwnerOnly ==
    \A p \in SecretPaths : fs[p].exists => fs[p].mode = "0600"

(***************************************************************************)
(* AllocSpec: the allocator applied to bounded inputs.                     *)
(***************************************************************************)

\* At most this many addresses are in use in an allocator input.
MaxInUse == 3

Subnet(base, mask) == [base |-> base, mask |-> mask]

\* VPN_SUBNET when the environment does not set it (utils.get_vpn_subnet)
DefaultSubnet == Subnet(Ip(10, 0, 0, 0), 16)

\* The VPN subnets tried: the default /16, an aligned /20 whose third octet
\* is not zero, /24 blocks, blocks whose base octet is not zero, and a /30
\* (one client address) that a few addresses in use exhaust.
AllocSubnets ==
    { DefaultSubnet,
      Subnet(Ip(10, 0, 0, 0), 30),
      Subnet(Ip(10, 0, 16, 0), 20),
      Subnet(Ip(10, 0, 0, 0), 24),
      Subnet(Ip(10, 0, 5, 0), 24),
      Subnet(Ip(10, 0, 0, 128), 25),
      Subnet(Ip(10, 0, 0, 248), 29) }

\* The addresses an in-use set is drawn from.
AllocPool ==
    { Ip(10, 0, 0, 1), Ip(10, 0, 0, 2), Ip(10, 0, 0, 3),
      Ip(10, 0, 16, 2), Ip(10, 0, 5, 2), Ip(10, 0, 0, 129),
      Ip(10, 0, 0, 249), Ip(10, 0, 0, 250) }

\* A set of addresses as a list of records carrying them as client_ip.
RECURSIVE AsConfigs(_)
AsConfigs(S) ==
    IF S = {} THEN <<>>
    ELSE LET ip == CHOOSE x \in S : \A y \in S :
                       \/ HiHalf(x) < HiHalf(y)
                       \/ HiHalf(x) = HiHalf(y) /\ LoHalf(x) <= LoHalf(y)
         IN  <<[client_ip |-> Cidr(ip, 32)]>> \o AsConfigs(S \ {ip})

\* The allocator returned an address (it did not raise).
Allocated == a_pc = "done" /\ a_result # NoAvailableIps

\* C8: the allocator never hands a client the network address (subnet base
\* + 0) or the server's own address (subnet base + 1), and the address of the
\* WireGuard [Interface] stanza never equals an allocated client address.
C8_NeverServerAddress ==
    Allocated =>
        /\ AddrOf(a_result) # BasePlus(a_subnet, 0)
        /\ AddrOf(a_result) # BasePlus(a_subnet, 1)
        /\ AddrOf(a_result) # _get_server_ip_in_subnet(a_subnet)

\* The numerically lowest address at or above subnet base + 2 that is not in
\* the in-use set (with n addresses in use it is among the first n + 1).
LowestFree(subnet, used_ips) ==
    LET free == { k \in 2..(2 + Cardinality(used_ips)) :
                    BasePlus(subnet, k) \notin used_ips }
    IN  BasePlus(subnet, CHOOSE k \in free : \A j \in free : k <= j)

\* C9: the allocator returns, as a /32, the lowest address at or above subnet
\* base + 2 that is not in use; 10.0.0.0/16 with 10.0.0.2 in use gives
\* 10.0.0.3/32.
C9_LowestFreeFromBasePlus2 ==
    Allocated =>
        a_result = Cidr(LowestFree(a_subnet, UsedIps(a_existing)), 32)

\* C10: for every subnet and every in-use set smaller than the subnet's
\* capacity, the returned address lies inside the VPN subnet and is not in
\* the in-use set.
C10_InsideSubnetAndUnused ==
    Allocated =>
        /\ InSubnet(AddrOf(a_result), a_subnet)
        /\ AddrOf(a_result) \notin UsedIps(a_existing)

\* The number of addresses of the subnet's block.
BlockSize(subnet) == Pow2(32 - subnet.mask)

\* Some address from subnet base + 2 to the end of the block is not in use
\* (with n addresses in use, one of the first n + 1 is free if the block has
\* that many).
HasFreeClientAddress(subnet, used_ips) ==
    \E k \in 2..(BlockSize(subnet) - 1) :
        /\ k <= 2 + Cardinality(used_ips)
        /\ BasePlus(subnet, k) \notin used_ips

\* C11: the allocator signals exhaustion exactly when every client address
\* of the subnet is in use: it returns an address only while one is free
\* inside the subnet, and raises only when none is.
C11_ExhaustedIffNoneFree ==
    a_pc = "done" =>
        (a_result = NoAvailableIps
            <=> ~HasFreeClientAddress(a_subnet, UsedIps(a_existing)))


(***************************************************************************)
(* The external configuration (airports.json): per airport, in file order, *)
(* its `vpn` record.                                                       *)
(***************************************************************************)

\* The airports of the configuration, in the order of the file.
AirportIds == <<"kspb", "kbdn">>

Airports == 1..Len(AirportIds)

\* Key and pre-shared-key material.  A key the operator put in the file, a
\* key drawn from secrets.token_bytes(32) (each draw is a new value: its
\* identity is the cycle, airport and role it was drawn for), and the public
\* key `wg pubkey` derives from a private key.
NoKey == [src |-> "none"]
OperatorKey(airport, role) == [src |-> "operator", airport |-> airport, role |-> role]
RandomKey(n, airport, role) == [src |-> "token_bytes", draw |-> n, airport |-> airport, role |-> role]
PubKey(private_key) == [src |-> "wg pubkey", of |-> private_key]

\* vpn.get('wireguard', {}) of a record without keys
NoWireguard ==
    [server_private_key |-> NoKey, server_public_key |-> NoKey,
     client_private_key |-> NoKey, client_public_key |-> NoKey]

\* vpn.get('openvpn', {}) of a record without a PSK; protocol "" is absent
NoOpenvpn == [psk |-> NoKey, protocol |-> ""]

\* A record without a dh_group key.
NoDhGroup == ""

\* remote_subnet of an airport's record
RemoteSubnet(a) == Cidr(Ip(192, 168, a, 0), 24)

\* A record with VPN disabled (or no vpn record at all).
DisabledVpn(a) ==
    [enabled |-> FALSE, type |-> "ipsec", remote_subnet |-> RemoteSubnet(a),
     client_ip |-> NoIp, psk |-> NoKey, wireguard |-> NoWireguard,
     openvpn |-> NoOpenvpn, dh_group |-> NoDhGroup]

IpsecVpn(a) ==
    [DisabledVpn(a) EXCEPT !.enabled = TRUE, !.type = "ipsec",
                           !.psk = OperatorKey(a, "psk")]

\* A WireGuard record the operator has not populated: no keys, no client_ip.
BareWireguardVpn(a) ==
    [DisabledVpn(a) EXCEPT !.enabled = TRUE, !.type = "wireguard"]

\* A populated WireGuard record: one server key for the interface, the
\* airport's client key, and a client_ip.
FullWireguardVpn(a, ip) ==
    [DisabledVpn(a) EXCEPT
        !.enabled = TRUE, !.type = "wireguard", !.client_ip = ip,
        !.wireguard =
            [server_private_key |-> OperatorKey(0, "server"),
             server_public_key  |-> PubKey(OperatorKey(0, "server")),
             client_private_key |-> OperatorKey(a, "client"),
             client_public_key  |-> PubKey(OperatorKey(a, "client"))]]

BareOpenvpnVpn(a) ==
    [DisabledVpn(a) EXCEPT !.enabled = TRUE, !.type = "openvpn"]

FullOpenvpnVpn(a, ip) ==
    [DisabledVpn(a) EXCEPT
        !.enabled = TRUE, !.type = "openvpn", !.client_ip = ip,
        !.openvpn = [psk |-> OperatorKey(0, "psk"), protocol |-> ""]]

\* The client addresses an operator writes into records.
SuppliedIps == { Cidr(Ip(10, 0, 0, 2), 32) }

\* The records an operator may give airport a.
VpnRecords(a) ==
    { DisabledVpn(a), IpsecVpn(a), BareWireguardVpn(a), BareOpenvpnVpn(a) }
    \cup { FullWireguardVpn(a, ip) : ip \in SuppliedIps }
    \cup { FullOpenvpnVpn(a, ip) : ip \in SuppliedIps }

\* The contents the configuration file may have.
Configs == { c \in [Airports -> UNION { VpnRecords(a) : a \in Airports }] :
               \A a \in Airports : c[a] \in VpnRecords(a) }

\* An IPsec record whose operator gave no psk.
IpsecVpnWithoutPsk(a) == [IpsecVpn(a) EXCEPT !.psk = NoKey]

\* A WireGuard record with the server's keys and the client's private key,
\* but no client_public_key.
WireguardVpnWithoutClientPub(a, ip) ==
    [FullWireguardVpn(a, ip) EXCEPT !.wireguard.client_public_key = NoKey]

\* A WireGuard record with the client's keys only.
WireguardVpnClientKeysOnly(a, ip) ==
    [FullWireguardVpn(a, ip) EXCEPT
        !.wireguard.server_private_key = NoKey,
        !.wireguard.server_public_key = NoKey]

\* An OpenVPN record with a PSK the operator gave this site.
SiteOpenvpnVpn(a, ip) ==
    [FullOpenvpnVpn(a, ip) EXCEPT !.openvpn.psk = OperatorKey(a, "psk")]

\* The dh_group values of the records: the groups of the table and one
\* that is not in it.
DhGroups == { "14", "15", "16", "17", "18", "19" }

\* An IPsec record with a dh_group.
IpsecVpnWithDhGroup(a, g) == [IpsecVpn(a) EXCEPT !.dh_group = g]

\* The client address an operator gives airport a.
SuppliedIp(a) == Cidr(Ip(10, 0, 0, 1 + a), 32)

\* The records an operator may give airport a, the partly filled ones
\* included.
HandlerRecords(a) ==
    VpnRecords(a)
    \cup { IpsecVpnWithoutPsk(a),
           WireguardVpnWithoutClientPub(a, SuppliedIp(a)),
           WireguardVpnClientKeysOnly(a, SuppliedIp(a)),
           SiteOpenvpnVpn(a, SuppliedIp(a)) }
    \cup { IpsecVpnWithDhGroup(a, g) : g \in DhGroups }

HandlerConfigs ==
    { c \in [Airports -> UNION { HandlerRecords(a) : a \in Airports }] :
         \A a \in Airports : c[a] \in HandlerRecords(a) }

\* A record holds every secret its protocol needs and a client address.
Populated(vpn) ==
    /\ vpn.enabled
    /\ vpn.type = "ipsec" => vpn.psk # NoKey
    /\ vpn.type = "wireguard" =>
          /\ vpn.wireguard.server_private_key # NoKey
          /\ vpn.client_ip # NoIp
    /\ vpn.type = "openvpn" =>
          /\ vpn.openvpn.psk # NoKey
          /\ vpn.client_ip # NoIp

(***************************************************************************)
(* VPNManager.parse_vpn_configs.                                           *)
(***************************************************************************)

\* self.handlers: the protocol names that have a handler
HandlerNames == { "ipsec", "wireguard", "openvpn" }

\* vpn.get('connection_name', f"{airport_id}_vpn"); the records modelled
\* give no connection_name.
ConnectionName(a) == AirportIds[a] \o "_vpn"

\* First pass: the vpn records of the enabled airports, in file order.  The
\* list holds the records themselves, so a client_ip the second pass stores
\* in a record is seen by every later allocation.
RECURSIVE EnabledFrom(_, _)
EnabledFrom(vpns, a) ==
    IF a > Len(AirportIds) THEN <<>>
    ELSE (IF vpns[a].enabled THEN <<vpns[a]>> ELSE <<>>)
         \o EnabledFrom(vpns, a + 1)

all_existing_configs(vpns) == EnabledFrom(vpns, 1)

\* vpn_configs[connection_name] = vpn_config: a dict keeps the position of a
\* key it already holds and replaces its value.
DictPut(d, vpn_config) ==
    IF \E k \in 1..Len(d) : d[k].connection_name = vpn_config.connection_name
    THEN [k \in 1..Len(d) |->
            IF d[k].connection_name = vpn_config.connection_name
            THEN vpn_config ELSE d[k]]
    ELSE Append(d, vpn_config)

\* WireGuardHandler.generate_keypair, called twice: the server pair, then
\* the client pair, all four keys of the record replaced.
GeneratedWireguard(n, a) ==
    [server_private_key |-> RandomKey(n, a, "server"),
     server_public_key  |-> PubKey(RandomKey(n, a, "server")),
     client_private_key |-> RandomKey(n, a, "client"),
     client_public_key  |-> PubKey(RandomKey(n, a, "client"))]

\* The vpn_config dict built for an airport, before the protocol's part.
BaseVpnConfig(a, vpn) ==
    [airport_id |-> AirportIds[a], connection_name |-> ConnectionName(a),
     protocol |-> vpn.type, remote_subnet |-> vpn.remote_subnet,
     handler |-> vpn.type, client_ip |-> NoIp, psk |-> NoKey,
     wireguard |-> NoWireguard, openvpn |-> NoOpenvpn,
     dh_group |-> NoDhGroup]

\* config.get('dh_group', '14')
DhGroupOf(c) == IF c.dh_group = NoDhGroup THEN "14" ELSE c.dh_group

\* A parse that assigns an address whether or not the record has one.
ReassignedClientIp(subnet, acc, a) ==
    assign_client_ip(subnet, all_existing_configs(acc.vpns))

\* The client_ip of a record after "assign client IP if not present".
ResolvedClientIp(subnet, acc, a) ==
    IF acc.vpns[a].client_ip = NoIp
    THEN assign_client_ip(subnet, all_existing_configs(acc.vpns))
    ELSE acc.vpns[a].client_ip

\* A parse that forgets the sites resolved so far when a site is skipped.
DropResolved(acc) == [acc EXCEPT !.out = <<>>]

\* `continue` in the except clause around assign_client_ip: the airport is
\* left out, the dict built so far stays.
SkipSite(acc) == acc

\* The second pass for one airport.  acc.vpns are the records (client_ip is
\* stored into them), acc.out the vpn_configs dict so far; acc.raised is set
\* when generate_keypair raises, which ends parse_vpn_configs.
\* n numbers the draws of this pass; wg_ok says whether `wg pubkey` works.
ParseAirport(subnet, acc, a, n, wg_ok) ==
    LET vpn == acc.vpns[a]
        base == BaseVpnConfig(a, vpn)
        ip == ResolvedClientIp(subnet, acc, a)
        stored == [acc.vpns EXCEPT ![a].client_ip = ip]
    IN  IF acc.raised \/ ~vpn.enabled \/ vpn.type \notin HandlerNames
        THEN acc
        ELSE CASE vpn.type = "ipsec" ->
                    [acc EXCEPT !.out = DictPut(@,
                        [base EXCEPT !.psk = vpn.psk,
                                     !.dh_group = DhGroupOf(vpn)])]
               [] vpn.type = "wireguard" ->
                    IF vpn.wireguard.server_private_key = NoKey /\ ~wg_ok
                    THEN [acc EXCEPT !.raised = TRUE]
                    ELSE IF ip = NoAvailableIps
                    THEN SkipSite(acc)
                    ELSE [acc EXCEPT
                            !.vpns = stored,
                            !.out = DictPut(@,
                                [base EXCEPT
                                   !.wireguard =
                                      IF vpn.wireguard.server_private_key = NoKey
                                      THEN GeneratedWireguard(n, a)
                                      ELSE vpn.wireguard,
                                   !.client_ip = ip])]
               [] vpn.type = "openvpn" ->
                    IF ip = NoAvailableIps
                    THEN SkipSite(acc)
                    ELSE [acc EXCEPT
                            !.vpns = stored,
                            !.out = DictPut(@,
                                [base EXCEPT
                                   !.openvpn =
                                      [psk |-> IF vpn.openvpn.psk = NoKey
                                               THEN RandomKey(n, a, "psk")
                                               ELSE vpn.openvpn.psk,
                                       protocol |-> vpn.openvpn.protocol],
                                   !.client_ip = ip,
                                   !.protocol =
                                      IF vpn.openvpn.protocol = "" THEN "udp"
                                      ELSE vpn.openvpn.protocol])]

RECURSIVE ParseFrom(_, _, _, _, _)
ParseFrom(subnet, acc, a, n, wg_ok) ==
    IF a > Len(AirportIds) THEN acc
    ELSE ParseFrom(subnet, ParseAirport(subnet, acc, a, n, wg_ok), a + 1, n, wg_ok)

\* parse_vpn_configs(config): [out |-> vpn_configs, raised |-> it raised]
parse_vpn_configs(subnet, loaded, n, wg_ok) ==
    ParseFrom(subnet, [vpns |-> loaded, out |-> <<>>, raised |-> FALSE], 1, n, wg_ok)

(***************************************************************************)
(* What the protocol handlers generate.  A configuration text is the       *)
(* record of what its stanzas say.                                         *)
(***************************************************************************)

\* The connections of a dict whose `protocol` key has the given value, in
\* dict order (by_protocol[protocol] in generate_configs).
Group(configs, protocol) ==
    SelectSeq(configs, LAMBDA c : c.protocol = protocol)

\* A table that falls back to the 1024-bit group.
DhMapDefault1024(dh_group) ==
    CASE dh_group = "14" -> "2048"
      [] dh_group = "15" -> "3072"
      [] dh_group = "16" -> "4096"
      [] dh_group = "17" -> "6144"
      [] dh_group = "18" -> "8192"
      [] OTHER -> "1024"

\* dh_map.get(str(dh_group), '2048')
dh_map(dh_group) ==
    CASE dh_group = "14" -> "2048"
      [] dh_group = "15" -> "3072"
      [] dh_group = "16" -> "4096"
      [] dh_group = "17" -> "6144"
      [] dh_group = "18" -> "8192"
      [] OTHER -> "2048"

\* IPSecHandler.generate_server_config: one conn stanza per connection
\* A generator that returns nothing when there is no connection.
IPSecHandler_EmptyWithoutConnections(configs) ==
    [file |-> "ipsec.conf",
     base |-> IF configs = <<>> THEN <<>> ELSE <<"config setup">>,
     conns |-> [k \in 1..Len(configs) |->
                  [conn |-> configs[k].connection_name,
                   ike |-> "modp" \o dh_map(DhGroupOf(configs[k])),
                   esp |-> "modp" \o dh_map(DhGroupOf(configs[k])),
                   rightid |-> configs[k].airport_id,
                   rightsubnet |-> configs[k].remote_subnet]]]

IPSecHandler_generate_server_config(configs) ==
    [file |-> "ipsec.conf",
     base |-> <<"config setup">>,
     conns |-> [k \in 1..Len(configs) |->
                  [conn |-> configs[k].connection_name,
                   ike |-> "modp" \o dh_map(DhGroupOf(configs[k])),
                   esp |-> "modp" \o dh_map(DhGroupOf(configs[k])),
                   rightid |-> configs[k].airport_id,
                   rightsubnet |-> configs[k].remote_subnet]]]

\* A generator that writes a PSK line for every connection, with or without
\* a psk.
IPSecHandler_LineForEveryConnection(configs) ==
    [file |-> "ipsec.secrets",
     psks |-> [k \in 1..Len(configs) |-> configs[k].psk]]

\* IPSecHandler.generate_secrets_config: one PSK line per connection that
\* has a psk
IPSecHandler_generate_secrets_config(configs) ==
    LET with_psk == SelectSeq(configs, LAMBDA c : c.psk # NoKey)
    IN  [file |-> "ipsec.secrets",
         psks |-> [k \in 1..Len(with_psk) |-> with_psk[k].psk]]

\* A generator whose loop over the connections ends at the first one
\* without a client public key.
RECURSIVE KeyedPrefix(_)
KeyedPrefix(configs) ==
    IF configs = <<>> \/ Head(configs).wireguard.client_public_key = NoKey
    THEN <<>>
    ELSE <<Head(configs)>> \o KeyedPrefix(Tail(configs))

WireGuardHandler_StopsAtMissingKey(subnet, configs) ==
    LET with_key == KeyedPrefix(configs)
    IN  [file |-> "wg0.conf",
         base |-> <<"[Interface]">>,
         address |-> Cidr(_get_server_ip_in_subnet(subnet), 32),
         private_key |-> IF configs = <<>> THEN NoKey
                         ELSE configs[1].wireguard.server_private_key,
         peers |-> [k \in 1..Len(with_key) |->
                      [airport_id |-> with_key[k].airport_id,
                       public_key |-> with_key[k].wireguard.client_public_key,
                       allowed_ips |-> with_key[k].client_ip]]]

\* WireGuardHandler.generate_server_config: the [Interface] stanza with the
\* first connection's server private key, one [Peer] per connection that
\* has a client public key
WireGuardHandler_generate_server_config(subnet, configs) ==
    LET with_key == SelectSeq(configs,
                        LAMBDA c : c.wireguard.client_public_key # NoKey)
    IN  [file |-> "wg0.conf",
         base |-> <<"[Interface]">>,
         address |-> Cidr(_get_server_ip_in_subnet(subnet), 32),
         private_key |-> IF configs = <<>> THEN NoKey
                         ELSE configs[1].wireguard.server_private_key,
         peers |-> [k \in 1..Len(with_key) |->
                      [airport_id |-> with_key[k].airport_id,
                       public_key |-> with_key[k].wireguard.client_public_key,
                       allowed_ips |-> with_key[k].client_ip]]]

\* OpenVPNHandler.generate_server_config: the base settings (without the
\* `secret` line when there is no connection: _get_base_server_config) and
\* one route per connection that has a client_ip and a remote_subnet
OpenVPNHandler_generate_server_config(configs) ==
    LET routed == SelectSeq(configs, LAMBDA c : c.client_ip # NoIp)
    IN  [file |-> "server.conf",
         base |-> <<"port", "proto", "dev tun", "server">>,
         secret |-> configs # <<>>,
         routes |-> [k \in 1..Len(routed) |->
                       [subnet |-> routed[k].remote_subnet,
                        via |-> AddrOf(routed[k].client_ip)]]]

\* OpenVPNHandler.generate_psk_file: the first connection's PSK, a new one
\* when it has none
OpenVPNHandler_generate_psk_file(configs, n) ==
    IF configs = <<>> THEN NoKey
    ELSE IF configs[1].openvpn.psk = NoKey THEN RandomKey(n, 0, "psk")
    ELSE configs[1].openvpn.psk

\* generate_client_config raised ValueError (missing keys, missing PSK)
MissingCredential == [raised |-> "ValueError"]

\* handler.generate_client_config(conn_name, config), by the connection's
\* handler
generate_client_config(c) ==
    CASE c.handler = "ipsec" ->
            [file |-> "client", airport_id |-> c.airport_id, psk |-> c.psk,
             remote_subnet |-> c.remote_subnet]
      [] c.handler = "wireguard" ->
            IF \/ c.wireguard.client_private_key = NoKey
               \/ c.wireguard.server_public_key = NoKey
            THEN MissingCredential
            ELSE [file |-> "client", airport_id |-> c.airport_id,
                  private_key |-> c.wireguard.client_private_key,
                  address |-> c.client_ip,
                  peer_public_key |-> c.wireguard.server_public_key,
                  allowed_ips |-> c.remote_subnet]
      [] c.handler = "openvpn" ->
            IF c.openvpn.psk = NoKey
            THEN MissingCredential
            ELSE [file |-> "client", airport_id |-> c.airport_id,
                  secret |-> c.openvpn.psk, route |-> c.remote_subnet]

(***************************************************************************)
(* Synthesis: generate_configs and generate_client_configs.  Within one    *)
(* step of the loop a writer runs to its end, or to the system call that   *)
(* raises.                                                                 *)
(***************************************************************************)

RECURSIVE RunCalls(_, _, _, _, _)
RunCalls(f, calls, texts, i, last) ==
    IF i > last THEN f
    ELSE RunCalls(ApplySys(f, calls[i], texts[calls[i].path]),
                  calls, texts, i + 1, last)

\* Writer fn run on file system f; system call number `fault` raises (0:
\* none does) and the writer's except clause runs.
RunWriter(f, fn, calls, texts, fault) ==
    IF fault = 0
    THEN RunCalls(f, calls, texts, 1, Len(calls))
    ELSE OnError(RunCalls(f, calls, texts, 1, fault - 1), fn, fault)

NoFault == [writer |-> "none", call |-> 0]

\* A failure that strikes every writer of the pass, not only the one named.
FaultAtAny(fault, writer) == fault.call

FaultAt(fault, writer) == IF fault.writer = writer THEN fault.call ELSE 0

\* The writer generate_configs calls for a protocol.
WriterOf(protocol) ==
    CASE protocol = "ipsec"     -> "_write_ipsec_configs"
      [] protocol = "wireguard" -> "_write_wireguard_config"
      [] protocol = "openvpn"   -> "_write_openvpn_configs"

\* by_protocol's keys that have a handler (the others are skipped with a
\* warning).
HandledGroups(configs) ==
    { protocol \in HandlerNames : Group(configs, protocol) # <<>> }

\* generate_configs(vpn_configs) on file system f.  The groups write
\* disjoint files and an exception of one is caught before the next runs, so
\* the order of the groups does not show in the result.
generate_configs(f, subnet, configs, n, fault) ==
    LET ipsec == Group(configs, "ipsec")
        wireguard == Group(configs, "wireguard")
        openvpn == Group(configs, "openvpn")
        ipsec_texts == [p \in AllPaths |->
            IF p = IPSEC_CONF THEN IPSecHandler_generate_server_config(ipsec)
            ELSE IPSecHandler_generate_secrets_config(ipsec)]
        wg_texts == [p \in AllPaths |->
            WireGuardHandler_generate_server_config(subnet, wireguard)]
        openvpn_texts == [p \in AllPaths |->
            IF p = Tmp(OPENVPN_CONF)
            THEN OpenVPNHandler_generate_server_config(openvpn)
            ELSE OpenVPNHandler_generate_psk_file(openvpn, n)]
        f1 == IF ipsec = <<>> THEN f
              ELSE RunWriter(f, "_write_ipsec_configs", _write_ipsec_configs,
                             ipsec_texts, FaultAt(fault, "_write_ipsec_configs"))
        f2 == IF wireguard = <<>> THEN f1
              ELSE RunWriter(f1, "_write_wireguard_config", _write_wireguard_config,
                             wg_texts, FaultAt(fault, "_write_wireguard_config"))
    IN  IF openvpn = <<>> THEN f2
        ELSE RunWriter(f2, "_write_openvpn_configs", _write_openvpn_configs,
                       openvpn_texts, FaultAt(fault, "_write_openvpn_configs"))

\* f"{airport_id}_{protocol}_client.conf" of a connection
ClientConfOf(c) == ClientConfPath(c.airport_id, c.protocol)

\* generate_client_configs(vpn_configs), connections k.. of the dict: a
\* connection whose generate_client_config or write raises is logged and the
\* loop goes on.
RECURSIVE ClientConfigsFrom(_, _, _, _)
ClientConfigsFrom(f, configs, k, fault) ==
    IF k > Len(configs) THEN f
    ELSE LET c == configs[k]
             text == generate_client_config(c)
             written ==
                IF text = MissingCredential THEN f
                ELSE RunWriter(f, "generate_client_configs",
                               write_client_config(ClientConfOf(c)),
                               [p \in AllPaths |-> text],
                               FaultAt(fault, c.connection_name))
         IN  ClientConfigsFrom(written, configs, k + 1, fault)

\* A pass over the connections that ends at the first one that fails.
ClientConfigsUntilFailure(f, configs, fault) ==
    IF \E k \in 1..Len(configs) : configs[k].connection_name = fault.writer
    THEN LET failing == CHOOSE k \in 1..Len(configs) :
                           configs[k].connection_name = fault.writer
         IN  ClientConfigsFrom(f, SubSeq(configs, 1, failing), 1, fault)
    ELSE ClientConfigsFrom(f, configs, 1, fault)

generate_client_configs(f, configs, fault) ==
    ClientConfigsFrom(f, configs, 1, fault)

\* The snapshot update_status_file builds: one entry per connection of
\* self.connections (the status values it queries are not part of the text
\* modelled here).
StatusSnapshot(conns) ==
    [file |-> "vpn-status.json",
     connections |-> [k \in 1..Len(conns) |->
                        [airport_id |-> conns[k].airport_id,
                         connection_name |-> conns[k].connection_name,
                         protocol |-> conns[k].protocol]]]

(***************************************************************************)
(* The specifications.                                                     *)
(***************************************************************************)
\* assign_client_ip has not returned yet
NotCalled == [pending |-> TRUE]

(***************************************************************************)
(* Probing.  self.connection_states and self.last_health_check are dicts   *)
(* keyed by connection name; an absent key of last_health_check reads as 0 *)
(* (.get(conn_name, 0)), an absent key of connection_states is NoState.    *)
(***************************************************************************)
ConnectionNames == { ConnectionName(a) : a \in Airports }

\* what check_connection_status reports
ConnStates == { "up", "connecting", "down" }

NoState == "absent"

\* `if time.time() - last_check > 300:  # Every 5 minutes`
HealthCheckInterval == 300

UPDATE_INTERVAL == 30

\* No probe of the connection yet.
NoProbe == [at |-> -1, gap |-> -1, state |-> NoState]

ProbeIdle ==
    /\ now = 0
    /\ connection_states = [c \in ConnectionNames |-> NoState]
    /\ last_health_check = [c \in ConnectionNames |-> 0]
    /\ probes = [c \in ConnectionNames |-> NoProbe]

NamesOf(conns) == { conns[k].connection_name : k \in 1..Len(conns) }

\* handler.health_check_connection(conn_name, ...) called at time t for a
\* connection reported in `state`: the history keeps the time of the call
\* and the least time between two successive calls for the connection.
Probed(p, t, state) ==
    [at |-> t,
     gap |-> IF p.at = -1 THEN p.gap
             ELSE IF p.gap = -1 \/ t - p.at < p.gap THEN t - p.at
             ELSE p.gap,
     state |-> state]

AllocIdle ==
    /\ a_subnet = DefaultSubnet
    /\ a_existing = <<>>
    /\ a_result = NotCalled
    /\ a_pc = "done"

\* No configuration file is modelled.
FileIdle ==
    /\ cfg_exists = FALSE
    /\ cfg_mtime = 0
    /\ cfg = <<>>

\* The service as __init__ leaves it, not started.
LoopIdle ==
    /\ running = TRUE
    /\ connections = <<>>
    /\ config_mtime = 0
    /\ pc = "stopped"
    /\ config_changed = FALSE
    /\ config = <<>>
    /\ vpn_configs = <<>>
    /\ faults = 0
    /\ synth_mtime = 0
    /\ synth_failed = FALSE
    /\ tracked_config = <<>>

(******************************* AllocSpec *********************************)

AllocInit ==
    /\ a_subnet \in AllocSubnets
    /\ \E S \in SUBSET AllocPool :
          /\ Cardinality(S) <= MaxInUse
          /\ a_existing = AsConfigs(S)
    /\ a_result = NotCalled
    /\ a_pc = "call"
    /\ WriteIdle
    /\ ProbeIdle
    /\ FileIdle
    /\ LoopIdle

\* One call of handler.assign_client_ip(existing_configs).
AssignClientIp ==
    /\ a_pc = "call"
    /\ a_result' = assign_client_ip(a_subnet, a_existing)
    /\ a_pc' = "done"
    /\ UNCHANGED <<a_subnet, a_existing>>
    /\ UNCHANGED <<writeVars, fileVars, loopVars, probeVars>>

AllocNext == AssignClientIp

AllocSpec == AllocInit /\ [][AllocNext]_vars

(******************************* WriteSpec *********************************)

WriteNext ==
    \/ (StartWrite /\ UNCHANGED <<allocVars, probeVars, fileVars, loopVars>>)
    \/ (SysStep /\ UNCHANGED <<allocVars, probeVars, fileVars, loopVars>>)
    \/ (PartialFlush /\ UNCHANGED <<allocVars, probeVars, fileVars, loopVars>>)
    \/ (SysFail /\ UNCHANGED <<allocVars, probeVars, fileVars, loopVars>>)
    \/ (WriteReturn /\ UNCHANGED <<allocVars, probeVars, fileVars, loopVars>>)

WriteInit == WriteIdle /\ AllocIdle /\ FileIdle /\ LoopIdle /\ ProbeIdle

WriteSpec == WriteInit /\ [][WriteNext]_vars

\* Edits the operator makes to the configuration file in a behaviour.
MaxEdits == 1

\* Distinct values a generated key can take in a parse pass.
KeyDraws == 2

\* System calls of the loop's writers that raise in a behaviour.
MaxFaults == 1

(******************************* ParseSpec *********************************)
(* parse_vpn_configs applied again and again to one loaded configuration:  *)
(* the parse and the tracking assignment of the loop, without the rest of  *)
(* the cycle.                                                              *)

\* The VPN subnets the handlers are constructed with: the default, and a /31
\* (network and server address only) in which every allocation fails.
ParseSubnets == { DefaultSubnet, Subnet(Ip(10, 0, 0, 254), 31) }

ParseInit ==
    /\ a_subnet \in ParseSubnets
    /\ a_existing = <<>>
    /\ a_result = NotCalled
    /\ a_pc = "done"
    /\ WriteIdle
    /\ ProbeIdle
    /\ FileIdle
    /\ running = TRUE
    /\ connections = <<>>
    /\ config_mtime = 0
    /\ pc = "parse"
    /\ config_changed = FALSE
    /\ config \in HandlerConfigs
    /\ vpn_configs = <<>>
    /\ faults = 0
    /\ synth_mtime = 0
    /\ synth_failed = FALSE
    /\ tracked_config = <<>>

\* vpn_configs = self.parse_vpn_configs(config), when it returns
ParsePass ==
    /\ pc = "parse"
    /\ \E n \in 1..KeyDraws, wg_ok \in BOOLEAN :
          LET parsed == parse_vpn_configs(a_subnet, config, n, wg_ok)
          IN  /\ ~parsed.raised
              /\ vpn_configs' = parsed.out
    /\ pc' = "track"
    /\ UNCHANGED <<running, connections, config_mtime, config_changed, config,
                   faults, synth_mtime, synth_failed, tracked_config>>
    /\ UNCHANGED <<allocVars, probeVars, writeVars, fileVars>>

\* self.connections = vpn_configs, and on to the next cycle's parse of the
\* same configuration
ParseTrack ==
    /\ pc = "track"
    /\ connections' = vpn_configs
    /\ tracked_config' = config
    /\ pc' = "parse"
    /\ UNCHANGED <<running, config_mtime, config_changed, config, vpn_configs,
                   faults, synth_mtime, synth_failed>>
    /\ UNCHANGED <<allocVars, probeVars, writeVars, fileVars>>

ParseNext == ParsePass \/ ParseTrack

ParseSpec == ParseInit /\ [][ParseNext]_vars

(********************* Spec: the reconciliation loop ***********************)

\* What the loop leaves alone among the variables of the other harnesses.
writerIdleVars == <<w_fn, w_i, w_count, w_prev, w_outcome, w_error>>

Init ==
    /\ AllocIdle
    /\ WriteIdle
    /\ ProbeIdle
    /\ cfg_exists = TRUE
    /\ cfg_mtime = 1
    /\ cfg \in Configs
    /\ running = TRUE
    /\ connections = <<>>
    /\ config_mtime = 0
    /\ pc = "top"
    /\ config_changed = FALSE
    /\ config = <<>>
    /\ vpn_configs = <<>>
    /\ faults = 0
    /\ synth_mtime = 0
    /\ synth_failed = FALSE
    /\ tracked_config = <<>>

\* The operator rewrites the record of one airport (or touches the file).
EditConfig ==
    /\ cfg_mtime <= MaxEdits
    /\ \E a \in Airports :
          \E rec \in VpnRecords(a) : cfg' = [cfg EXCEPT ![a] = rec]
    /\ cfg_exists' = TRUE
    /\ cfg_mtime' = cfg_mtime + 1
    /\ UNCHANGED <<allocVars, probeVars, writeVars, loopVars>>

\* The file goes away (a deployment replacing it, a volume not mounted).
RemoveConfig ==
    /\ cfg_mtime <= MaxEdits
    /\ cfg_exists
    /\ cfg_exists' = FALSE
    /\ cfg_mtime' = cfg_mtime + 1
    /\ UNCHANGED <<cfg, allocVars, probeVars, writeVars, loopVars>>

\* A signal that ends the process where it stands.
SignalKills ==
    /\ running
    /\ running' = FALSE
    /\ pc' = "stopped"
    /\ UNCHANGED <<connections, config_mtime, config_changed, config,
                   vpn_configs, faults, synth_mtime, synth_failed, tracked_config>>
    /\ UNCHANGED <<allocVars, probeVars, writeVars, fileVars>>

\* signal_handler: SIGTERM or SIGINT
SignalHandler ==
    /\ running
    /\ running' = FALSE
    /\ UNCHANGED <<connections, config_mtime, pc, config_changed, config,
                   vpn_configs, faults, synth_mtime, synth_failed, tracked_config>>
    /\ UNCHANGED <<allocVars, probeVars, writeVars, fileVars>>

\* `while self.running` found false
Stop ==
    /\ pc = "top"
    /\ ~running
    /\ pc' = "stopped"
    /\ UNCHANGED <<running, connections, config_mtime, config_changed, config,
                   vpn_configs, faults, synth_mtime, synth_failed, tracked_config>>
    /\ UNCHANGED <<allocVars, probeVars, writeVars, fileVars>>

\* os.path.getmtime(CONFIG_PATH) if os.path.exists(CONFIG_PATH) else 0
current_mtime == IF cfg_exists THEN cfg_mtime ELSE 0

\* "Check if config file changed": the change is recorded here.
CheckConfigChanged ==
    /\ pc = "top"
    /\ running
    /\ config_changed' = (current_mtime # config_mtime)
    /\ config_mtime' = IF current_mtime # config_mtime THEN current_mtime
                       ELSE config_mtime
    /\ pc' = "load"
    /\ UNCHANGED <<running, connections, config, vpn_configs, faults,
                   synth_mtime, synth_failed, tracked_config>>
    /\ UNCHANGED <<allocVars, probeVars, writeVars, fileVars>>

\* load_config: None when the file is missing or cannot be read or decoded
\* (it is read while the operator may be writing it).
LoadConfig ==
    /\ pc = "load"
    /\ \E ok \in BOOLEAN :
          /\ ok => cfg_exists
          /\ config' = IF ok THEN cfg ELSE <<>>
          /\ pc' = IF ok THEN "parse" ELSE "backoff"
    /\ UNCHANGED <<running, connections, config_mtime, config_changed,
                   vpn_configs, faults, synth_mtime, synth_failed, tracked_config>>
    /\ UNCHANGED <<allocVars, probeVars, writeVars, fileVars>>

\* vpn_configs = self.parse_vpn_configs(config); an exception leaves the
\* cycle through the loop's except clause.
ParseVpnConfigs ==
    /\ pc = "parse"
    /\ \E n \in 1..KeyDraws, wg_ok \in BOOLEAN :
          LET parsed == parse_vpn_configs(DefaultSubnet, config, n, wg_ok)
          IN  /\ vpn_configs' = IF parsed.raised THEN vpn_configs ELSE parsed.out
              /\ pc' = IF parsed.raised THEN "backoff"
                       ELSE IF config_changed \/ connections = <<>>
                       THEN "generate" ELSE "track"
    /\ UNCHANGED <<running, connections, config_mtime, config_changed, config,
                   faults, synth_mtime, synth_failed, tracked_config>>
    /\ UNCHANGED <<allocVars, probeVars, writeVars, fileVars>>

\* The system calls of generate_configs that can raise.
SynthFaults(configs) ==
    { NoFault } \cup
    { [writer |-> WriterOf(protocol), call |-> k] :
        protocol \in HandledGroups(configs), k \in 1..6 }

\* self.generate_configs(vpn_configs)
GenerateConfigs ==
    /\ pc = "generate"
    /\ \E n \in 1..KeyDraws, fault \in SynthFaults(vpn_configs) :
          /\ fault # NoFault =>
                /\ faults < MaxFaults
                /\ fault.call <= Len(SysCalls(fault.writer))
          /\ fs' = generate_configs(fs, DefaultSubnet, vpn_configs, n, fault)
          /\ faults' = IF fault = NoFault THEN faults ELSE faults + 1
          /\ synth_failed' = (fault # NoFault)
    /\ synth_mtime' = config_mtime
    /\ pc' = "clients"
    /\ UNCHANGED <<running, connections, config_mtime, config_changed, config,
                   vpn_configs, tracked_config>>
    /\ UNCHANGED <<allocVars, probeVars, writerIdleVars, fileVars>>

\* The system calls of generate_client_configs that can raise.
ClientFaults(configs) ==
    { NoFault } \cup
    { [writer |-> configs[k].connection_name, call |-> j] :
        k \in { i \in 1..Len(configs) :
                  generate_client_config(configs[i]) # MissingCredential },
        j \in 1..Len(write_client_config(IPSEC_CONF)) }

\* self.generate_client_configs(vpn_configs)
GenerateClientConfigs ==
    /\ pc = "clients"
    /\ \E fault \in ClientFaults(vpn_configs) :
          /\ fault # NoFault => faults < MaxFaults
          /\ fs' = generate_client_configs(fs, vpn_configs, fault)
          /\ faults' = IF fault = NoFault THEN faults ELSE faults + 1
    /\ pc' = "track"
    /\ UNCHANGED <<running, connections, config_mtime, config_changed, config,
                   vpn_configs, synth_mtime, synth_failed, tracked_config>>
    /\ UNCHANGED <<allocVars, probeVars, writerIdleVars, fileVars>>

\* self.connections = vpn_configs, then the status of each connection is
\* queried and logged.
TrackConnections ==
    /\ pc = "track"
    /\ connections' = vpn_configs
    /\ tracked_config' = config
    /\ pc' = "publish"
    /\ UNCHANGED <<running, config_mtime, config_changed, config, vpn_configs,
                   faults, synth_mtime, synth_failed>>
    /\ UNCHANGED <<allocVars, probeVars, writeVars, fileVars>>

\* self.update_status_file(): its exceptions are logged inside.
UpdateStatusFile ==
    /\ pc = "publish"
    /\ \E fault \in 0..Len(write_status_file) :
          /\ fault # 0 => faults < MaxFaults
          /\ fs' = RunWriter(fs, "update_status_file", write_status_file,
                             [p \in AllPaths |-> StatusSnapshot(connections)],
                             fault)
          /\ faults' = IF fault = 0 THEN faults ELSE faults + 1
    /\ pc' = "sleep"
    /\ UNCHANGED <<running, connections, config_mtime, config_changed, config,
                   vpn_configs, synth_mtime, synth_failed, tracked_config>>
    /\ UNCHANGED <<allocVars, probeVars, writerIdleVars, fileVars>>

\* time.sleep(UPDATE_INTERVAL) at the end of a cycle
Sleep ==
    /\ pc = "sleep"
    /\ pc' = "top"
    /\ UNCHANGED <<running, connections, config_mtime, config_changed, config,
                   vpn_configs, faults, synth_mtime, synth_failed, tracked_config>>
    /\ UNCHANGED <<allocVars, probeVars, writeVars, fileVars>>

\* A loop that an error ends: after the error it stops instead of sleeping.
BackoffExits ==
    /\ pc = "backoff"
    /\ pc' = "stopped"
    /\ UNCHANGED <<running, connections, config_mtime, config_changed, config,
                   vpn_configs, faults, synth_mtime, synth_failed, tracked_config>>
    /\ UNCHANGED <<allocVars, probeVars, writeVars, fileVars>>

\* time.sleep(60) after a failed load (then `continue`) or in the loop's
\* except clause
Backoff ==
    /\ pc = "backoff"
    /\ pc' = "top"
    /\ UNCHANGED <<running, connections, config_mtime, config_changed, config,
                   vpn_configs, faults, synth_mtime, synth_failed, tracked_config>>
    /\ UNCHANGED <<allocVars, probeVars, writeVars, fileVars>>

Next ==
    \/ EditConfig
    \/ RemoveConfig
    \/ SignalHandler
    \/ Stop
    \/ CheckConfigChanged
    \/ LoadConfig
    \/ ParseVpnConfigs
    \/ GenerateConfigs
    \/ GenerateClientConfigs
    \/ TrackConnections
    \/ UpdateStatusFile
    \/ Sleep
    \/ Backoff

Spec == Init /\ [][Next]_vars

(***************************************************************************)
(* Properties of the reconciliation loop.                                  *)
(***************************************************************************)

\* C3: a change of the configuration file's modification time is never
\* recorded as seen without synthesis having run for it: whenever a cycle
\* gets past the decision whether to synthesize, generate_configs has run
\* with the recorded modification time, also when the load or the parse
\* failed in the cycle that detected the change.
C3_SeenChangeWasSynthesized ==
    pc = "track" => synth_mtime = config_mtime

\* The server files generate_configs writes for a protocol.
ServerArtifacts(protocol) ==
    CASE protocol = "ipsec"     -> { IPSEC_CONF, IPSEC_SECRETS }
      [] protocol = "wireguard" -> { WG_CONF }
      [] protocol = "openvpn"   -> { OPENVPN_CONF, OPENVPN_PSK }

\* The protocols (handlers) that have a resolved connection.
ProtocolsOf(configs) ==
    { configs[k].handler : k \in 1..Len(configs) }

\* C4: a synthesis pass in which no write fails leaves, for every protocol
\* of ipsec, wireguard, openvpn that has a resolved connection, that
\* protocol's server artifacts written.
C4_EveryProtocolWritten ==
    [][ (pc = "generate" /\ pc' = "clients" /\ faults' = faults) =>
            \A protocol \in ProtocolsOf(vpn_configs) :
                \A p \in ServerArtifacts(protocol) :
                    fs'[p].exists /\ fs'[p].complete ]_vars

\* The secret material of a resolved connection.
SecretsOf(c) == [psk |-> c.psk, wireguard |-> c.wireguard, openvpn_psk |-> c.openvpn.psk]

\* C5: a cycle over the same configuration as the one the tracked
\* connections were resolved from resolves every connection to the same
\* secret material: generated keys and PSKs are not generated again.
C5_SecretsGeneratedOnce ==
    (pc = "track" /\ config = tracked_config) =>
        \A i \in 1..Len(vpn_configs) : \A j \in 1..Len(connections) :
            vpn_configs[i].connection_name = connections[j].connection_name
                => SecretsOf(vpn_configs[i]) = SecretsOf(connections[j])

\* The cycle has parsed `config` into `vpn_configs`.
Parsed == pc \in { "generate", "clients", "track" }

\* The resolved connection of airport a carries exactly the secrets and the
\* client_ip of the record.
KeepsRecord(c, vpn) ==
    /\ c.client_ip = vpn.client_ip
    /\ c.psk = vpn.psk
    /\ c.wireguard = vpn.wireguard
    /\ c.openvpn.psk = vpn.openvpn.psk

\* C6: a record that already holds its secrets and its client_ip is resolved
\* to exactly these values, in every cycle that parses it.
C6_PopulatedRecordKept ==
    Parsed =>
        \A a \in Airports :
            Populated(config[a]) =>
                \E k \in 1..Len(vpn_configs) :
                    /\ vpn_configs[k].airport_id = AirportIds[a]
                    /\ KeepsRecord(vpn_configs[k], config[a])

\* C6's case: a populated WireGuard record and a populated OpenVPN record
\* parsed again, in a cycle after the one that resolved them first.
C6_PopulatedParsedAgain ==
    /\ pc = "track"
    /\ config = tracked_config
    /\ connections # <<>>
    /\ \E a \in Airports : Populated(config[a]) /\ config[a].type = "wireguard"
    /\ \E a \in Airports : Populated(config[a]) /\ config[a].type = "openvpn"

\* C7: no two resolved connections of a cycle hold the same client address.
C7_DistinctClientAddresses ==
    \A i \in 1..Len(vpn_configs) : \A j \in 1..Len(vpn_configs) :
        (i # j /\ vpn_configs[i].client_ip # NoIp)
            => vpn_configs[i].client_ip # vpn_configs[j].client_ip

(***************************************************************************)
(* Properties of parse_vpn_configs under failures.                         *)
(***************************************************************************)

\* Airport a has a resolved connection in the dict.
ResolvedIn(configs, a) ==
    \E k \in 1..Len(configs) : configs[k].airport_id = AirportIds[a]

\* The record of airport a needs an address and the subnet has none to give.
AllocationFails(subnet, loaded, a) ==
    /\ loaded[a].type \in { "wireguard", "openvpn" }
    /\ loaded[a].client_ip = NoIp
    /\ assign_client_ip(subnet, all_existing_configs(loaded)) = NoAvailableIps

\* C12: when address allocation fails for a site, that site and only that
\* site is missing from the resolved connections: every other enabled site
\* is resolved and the cycle goes on from the parse.
C12_OnlyFailedSiteDropped ==
    pc = "track" =>
        \A a \in Airports :
            config[a].enabled =>
                (ResolvedIn(vpn_configs, a)
                    <=> ~AllocationFails(a_subnet, config, a))

\* C12's case: one site's allocation failed and another site is resolved.
C12_OneDroppedOneResolved ==
    /\ pc = "track"
    /\ \E a \in Airports :
          /\ config[a].enabled
          /\ AllocationFails(a_subnet, config, a)
          /\ ~ResolvedIn(vpn_configs, a)
    /\ \E b \in Airports : ResolvedIn(vpn_configs, b)

(******************************* SynthSpec *********************************)
(* One cycle from the synthesis decision on: the steps of the loop after   *)
(* the parse, started on the connections resolved from each configuration  *)
(* with no artifact on disk yet.                                           *)

SynthInit ==
    /\ AllocIdle
    /\ WriteIdle
    /\ ProbeIdle
    /\ cfg_exists = TRUE
    /\ cfg_mtime = 1
    /\ cfg \in Configs
    /\ running = TRUE
    /\ connections = <<>>
    /\ config_mtime = 1
    /\ pc = "generate"
    /\ config_changed = TRUE
    /\ config = cfg
    /\ \E n \in 1..KeyDraws :
          vpn_configs = parse_vpn_configs(DefaultSubnet, cfg, n, TRUE).out
    /\ faults = 0
    /\ synth_mtime = 0
    /\ synth_failed = FALSE
    /\ tracked_config = <<>>

SynthNext ==
    \/ GenerateConfigs
    \/ GenerateClientConfigs
    \/ TrackConnections
    \/ UpdateStatusFile

SynthSpec == SynthInit /\ [][SynthNext]_vars

\* Every server artifact of the protocol is on disk, complete.
ServerArtifactsWritten(f, protocol) ==
    \A p \in ServerArtifacts(protocol) : f[p].exists /\ f[p].complete

\* C13: when the generation or the write of one protocol's server artifacts
\* fails in a synthesis pass, the artifacts of every other protocol that has
\* a handler and a connection are written in the same pass, and the cycle
\* goes on to the client configs, the probing and the publishing.
C13_ProtocolFailureIsolated ==
    [][ (pc = "generate" /\ faults' # faults) =>
            /\ pc' = "clients"
            /\ \A p1 \in HandledGroups(vpn_configs) :
               \A p2 \in HandledGroups(vpn_configs) :
                  p1 # p2 => \/ ServerArtifactsWritten(fs', p1)
                             \/ ServerArtifactsWritten(fs', p2) ]_vars

\* C13's case: two protocols had connections, the write of one failed and
\* the other one's artifacts are on disk.
C13_OneFailedOtherWritten ==
    /\ pc = "clients"
    /\ faults = 1
    /\ \E p1 \in HandledGroups(vpn_configs) :
       \E p2 \in HandledGroups(vpn_configs) :
          /\ ~ServerArtifactsWritten(fs, p1)
          /\ ServerArtifactsWritten(fs, p2)

\* The record lacks WireGuard keys: parse_vpn_configs has to derive them.
NeedsDerivation(vpn) ==
    /\ vpn.enabled
    /\ vpn.type = "wireguard"
    /\ vpn.wireguard.server_private_key = NoKey

\* C14: when key derivation is unavailable for a site that lacks keys, only
\* that site is affected: a cycle whose configuration has another enabled
\* site, one that needs no derivation, goes on from the parse to synthesis,
\* probing and publishing; the parse does not end the cycle.
C14_DerivationFailureIsolated ==
    [][ (/\ pc = "parse"
         /\ \E a \in Airports :
               config[a].enabled /\ ~NeedsDerivation(config[a]))
            => pc' # "backoff" ]_vars

\* The client config of the connection is on disk, complete and owner-only.
ClientConfigWritten(f, c) ==
    /\ f[ClientConfOf(c)].exists
    /\ f[ClientConfOf(c)].complete
    /\ f[ClientConfOf(c)].mode = "0600"

\* The connections of the dict whose client config is not written.
ClientConfigsMissing(f, configs) ==
    { k \in 1..Len(configs) :
        /\ generate_client_config(configs[k]) # MissingCredential
        /\ ~ClientConfigWritten(f, configs[k]) }

\* C15: a failure generating or writing one site's client config blocks no
\* other site's: after the pass, only the sites whose own generation or
\* write failed lack their client config, and the cycle goes on.
C15_ClientFailureIsolated ==
    [][ pc = "clients" =>
            \/ pc' = "clients"
            \/ /\ pc' = "track"
               /\ Cardinality(ClientConfigsMissing(fs', vpn_configs))
                     <= faults' - faults ]_vars

\* C15's case: the write of one site's client config failed and another
\* site's client config is on disk.
C15_OneFailedOtherWritten ==
    /\ pc = "track"
    /\ faults = 1
    /\ ClientConfigsMissing(fs, vpn_configs) # {}
    /\ \E k \in 1..Len(vpn_configs) : ClientConfigWritten(fs, vpn_configs[k])

(******************************* ClientSpec ********************************)
(* handler.generate_client_config applied to one resolved connection.      *)

\* The values a secret of a connection can have: absent, the operator's, or
\* a generated one.
KeyValues(a, role) ==
    { NoKey, OperatorKey(a, role) }
        \cup { RandomKey(n, a, role) : n \in 1..KeyDraws }

\* The resolved connections of airport a that handlers are given, with each
\* secret present or absent.
ClientInputs(a) ==
    LET base == BaseVpnConfig(a, DisabledVpn(a))
        ips == { NoIp } \cup SuppliedIps
    IN  { [base EXCEPT !.protocol = "ipsec", !.handler = "ipsec", !.psk = k] :
            k \in KeyValues(a, "psk") }
        \cup
        { [base EXCEPT !.protocol = "wireguard", !.handler = "wireguard",
                       !.client_ip = ip,
                       !.wireguard = [NoWireguard EXCEPT
                                        !.client_private_key = ck,
                                        !.server_public_key = sk]] :
            ip \in ips, ck \in KeyValues(a, "client"),
            sk \in { NoKey, PubKey(OperatorKey(0, "server")) } }
        \cup
        { [base EXCEPT !.protocol = "udp", !.handler = "openvpn",
                       !.client_ip = ip,
                       !.openvpn = [psk |-> k, protocol |-> ""]] :
            ip \in ips, k \in KeyValues(a, "psk") }

ClientInit ==
    /\ a_subnet = DefaultSubnet
    /\ \E a \in Airports : \E c \in ClientInputs(a) : a_existing = <<c>>
    /\ a_result = NotCalled
    /\ a_pc = "call"
    /\ WriteIdle
    /\ ProbeIdle
    /\ FileIdle
    /\ LoopIdle

\* One call of handler.generate_client_config(conn_name, config).
GenerateClientConfig ==
    /\ a_pc = "call"
    /\ a_result' = generate_client_config(a_existing[1])
    /\ a_pc' = "done"
    /\ UNCHANGED <<a_subnet, a_existing>>
    /\ UNCHANGED <<writeVars, fileVars, loopVars, probeVars>>

ClientNext == GenerateClientConfig

ClientSpec == ClientInit /\ [][ClientNext]_vars

\* The secret or key material the connection's protocol requires is absent.
SecretAbsent(c) ==
    CASE c.handler = "ipsec" -> c.psk = NoKey
      [] c.handler = "wireguard" ->
            \/ c.wireguard.client_private_key = NoKey
            \/ c.wireguard.server_public_key = NoKey
      [] c.handler = "openvpn" -> c.openvpn.psk = NoKey

\* C16: for every protocol, generate_client_config fails whenever the
\* connection's required secret or key material is absent; no client config
\* text is produced without its secret.
C16_NoClientConfigWithoutSecret ==
    (a_pc = "done" /\ SecretAbsent(a_existing[1]))
        => a_result = MissingCredential

\* C17: after a cycle in which synthesis failed (a protocol's artifacts could
\* not be generated or written), the next cycle that gets past the parse
\* runs the synthesis again, also when the configuration file's
\* modification time has not changed.
C17_FailedSynthesisRetried ==
    [][ (pc = "parse" /\ synth_failed /\ pc' \notin { "parse", "backoff" })
            => pc' = "generate" ]_vars

(******************************** LoopSpec *********************************)
(* The reconciliation loop with a scheduler that keeps running it: a step  *)
(* of the loop that can be taken is taken (sleeps end, calls return).  The *)
(* configuration starts with one site.                                     *)

LoopInit ==
    /\ Init
    /\ \A a \in Airports : a > 1 => ~cfg[a].enabled

\* The steps monitor_connections itself takes.
LoopStep ==
    \/ Stop
    \/ CheckConfigChanged
    \/ LoadConfig
    \/ ParseVpnConfigs
    \/ GenerateConfigs
    \/ GenerateClientConfigs
    \/ TrackConnections
    \/ UpdateStatusFile
    \/ Sleep
    \/ Backoff

\* The operator does not edit the file here; it may disappear, and a
\* signal may arrive at any point.
LoopNext == LoopStep \/ SignalHandler \/ RemoveConfig

LoopSpec == LoopInit /\ [][LoopNext]_vars /\ WF_vars(LoopStep)

\* C18: no error raised inside a cycle ends the loop.  The loop is left only
\* with the running flag down, which only a signal does; a cycle that raised
\* (or could not load the configuration) backs off and is followed by a new
\* cycle at the top of the loop.
C18_ErrorsNeverEndLoop ==
    /\ [][ pc' = "stopped" => ~running ]_vars
    /\ [][ (running /\ ~running') => pc' = pc ]_vars
    /\ [][ (pc = "backoff" /\ pc' # "backoff") => pc' = "top" ]_vars
    /\ (pc = "backoff") ~> (pc = "top")

\* C18's case: parse_vpn_configs raised in a cycle and the loop, still
\* running, is about to back off.
C18_CycleRaised ==
    /\ pc = "backoff"
    /\ running
    /\ config # <<>>

\* The step of the cycle that follows each step when nothing fails.
NextInCycle(at) ==
    CASE at = "generate" -> "clients"
      [] at = "clients"  -> "track"
      [] at = "track"    -> "publish"
      [] at = "publish"  -> "sleep"
      [] at = "sleep"    -> "top"
      [] at = "backoff"  -> "top"
      [] OTHER           -> at

\* C19: a termination signal only sets the running flag to false.  The cycle
\* in flight runs to its end, its publishing step included; once the flag is
\* seen at the top of the loop no new cycle starts; and the loop reaches the
\* stopped state.
C19_GracefulShutdown ==
    /\ [][ (running /\ ~running') =>
             UNCHANGED <<connections, config_mtime, pc, config_changed, config,
                         vpn_configs, fs>> ]_vars
    /\ [][ (~running /\ pc = "top") => pc' \in { "top", "stopped" } ]_vars
    /\ [][ (~running /\ pc' # pc /\ pc \notin { "top", "load", "parse" })
             => pc' = NextInCycle(pc) ]_vars
    /\ (~running /\ pc \in { "generate", "clients", "track" })
          ~> (~running /\ pc = "publish")
    /\ (~running) ~> (pc = "stopped")

\* C19's case: the signal arrived with a cycle in flight, which has gone on
\* to its publishing step.
C19_SignalledInFlight ==
    /\ ~running
    /\ pc = "publish"
    /\ connections # <<>>

(***************************************************************************)
(* ProbeSpec: the probing of the connections a cycle tracks, over cycles   *)
(* that find the configuration unchanged.  Time advances in the sleep at   *)
(* the end of a cycle; the status checks and the probes themselves are     *)
(* taken to be instantaneous.                                              *)
(***************************************************************************)
MaxCycles == 11

\* The connection of a configuration of one site, tracked (line 432); the
\* clock reads later than one interval after the epoch.
ProbeInit ==
    /\ AllocIdle
    /\ WriteIdle
    /\ cfg_exists = TRUE
    /\ cfg_mtime = 1
    /\ cfg \in Configs
    /\ \A a \in Airports : a > 1 => ~cfg[a].enabled
    /\ running = TRUE
    /\ vpn_configs = parse_vpn_configs(DefaultSubnet, cfg, 1, TRUE).out
    /\ connections = vpn_configs
    /\ connections # <<>>
    /\ config_mtime = 1
    /\ pc = "check"
    /\ config_changed = FALSE
    /\ config = cfg
    /\ faults = 0
    /\ synth_mtime = 0
    /\ synth_failed = FALSE
    /\ tracked_config = cfg
    /\ now = HealthCheckInterval + 1
    /\ connection_states = [c \in ConnectionNames |-> NoState]
    /\ last_health_check = [c \in ConnectionNames |-> 0]
    /\ probes = [c \in ConnectionNames |-> NoProbe]

\* monitor_connections, "Check each connection status": every tracked
\* connection's status is recorded; one reported up whose last_health_check
\* lies more than the interval back is probed and its timestamp set.
CheckConnections ==
    /\ pc = "check"
    /\ \E st \in [NamesOf(vpn_configs) -> ConnStates] :
          LET due(c) == /\ c \in NamesOf(vpn_configs)
                        /\ st[c] = "up"
                        /\ now - last_health_check[c] > HealthCheckInterval
          IN  /\ connection_states' =
                    [c \in ConnectionNames |->
                        IF c \in NamesOf(vpn_configs) THEN st[c]
                        ELSE connection_states[c]]
              /\ last_health_check' =
                    [c \in ConnectionNames |->
                        IF due(c) THEN now ELSE last_health_check[c]]
              /\ probes' =
                    [c \in ConnectionNames |->
                        IF due(c) THEN Probed(probes[c], now, st[c])
                        ELSE probes[c]]
    /\ pc' = "publish"
    /\ UNCHANGED <<now, allocVars, writeVars, fileVars>>
    /\ UNCHANGED <<running, connections, config_mtime, config_changed, config,
                   vpn_configs, faults, synth_mtime, synth_failed, tracked_config>>

\* health_check = 'pass' if is_healthy else 'fail', 'unknown' unless up
HealthResult(state, healthy) ==
    IF state # "up" THEN "unknown"
    ELSE IF healthy THEN "pass"
    ELSE "fail"

\* A snapshot that leaves out the connections that are not up.
SnapshotOfUp(conns, st, healthy) ==
    [file |-> "vpn-status.json",
     connections |->
        LET up == SelectSeq(conns, LAMBDA c : st[c.connection_name] = "up")
        IN  [k \in 1..Len(up) |->
                [airport_id |-> up[k].airport_id,
                 connection_name |-> up[k].connection_name,
                 protocol |-> up[k].protocol,
                 status |-> "up",
                 health_check |-> HealthResult("up", healthy[up[k].connection_name])]]]

\* The snapshot update_status_file builds from the statuses and health
\* results it obtains: one entry per key of self.connections.
PublishedSnapshot(conns, st, healthy) ==
    [file |-> "vpn-status.json",
     connections |->
        [k \in 1..Len(conns) |->
            [airport_id |-> conns[k].airport_id,
             connection_name |-> conns[k].connection_name,
             protocol |-> conns[k].protocol,
             status |-> st[conns[k].connection_name],
             health_check |-> HealthResult(st[conns[k].connection_name],
                                           healthy[conns[k].connection_name])]]]

\* update_status_file: for every connection of self.connections the status
\* is asked again and, if it is up, the connection is probed ("Health check
\* for up connections"; self.last_health_check is neither read nor
\* written); the snapshot is written to the temporary file and renamed.  An
\* exception is logged inside.
PublishHealthChecks ==
    /\ pc = "publish"
    /\ \E st \in [NamesOf(connections) -> ConnStates],
          healthy \in [NamesOf(connections) -> BOOLEAN],
          fault \in 0..Len(write_status_file) :
          /\ fault # 0 => faults < MaxFaults
          /\ \A c \in NamesOf(connections) : st[c] # "up" => healthy[c] = FALSE
          /\ probes' =
                [c \in ConnectionNames |->
                    IF c \in NamesOf(connections) /\ st[c] = "up"
                    THEN Probed(probes[c], now, st[c])
                    ELSE probes[c]]
          /\ fs' = RunWriter(fs, "update_status_file", write_status_file,
                             [p \in AllPaths |->
                                 PublishedSnapshot(connections, st, healthy)],
                             fault)
          /\ faults' = IF fault = 0 THEN faults ELSE faults + 1
    /\ pc' = "sleep"
    /\ UNCHANGED <<now, connection_states, last_health_check>>
    /\ UNCHANGED <<allocVars, writerIdleVars, fileVars>>
    /\ UNCHANGED <<running, connections, config_mtime, config_changed, config,
                   vpn_configs, synth_mtime, synth_failed, tracked_config>>

\* time.sleep(UPDATE_INTERVAL); the next cycle finds the file unchanged and
\* tracks the same connections.
SleepInterval ==
    /\ pc = "sleep"
    /\ now < HealthCheckInterval + 1 + MaxCycles * UPDATE_INTERVAL
    /\ now' = now + UPDATE_INTERVAL
    /\ pc' = "check"
    /\ UNCHANGED <<connection_states, last_health_check, probes>>
    /\ UNCHANGED <<allocVars, writeVars, fileVars>>
    /\ UNCHANGED <<running, connections, config_mtime, config_changed, config,
                   vpn_configs, faults, synth_mtime, synth_failed, tracked_config>>

ProbeNext ==
    \/ CheckConnections
    \/ PublishHealthChecks
    \/ SleepInterval

ProbeSpec == ProbeInit /\ [][ProbeNext]_vars

\* C20: a connection is probed only when it is reported up and more than
\* 300 seconds after its previous probe, so two probes of one connection are
\* never less than 300 seconds apart.
C20_ProbesSpacedByInterval ==
    \A c \in ConnectionNames :
        /\ probes[c] # NoProbe => probes[c].state = "up"
        /\ probes[c].gap # -1 => probes[c].gap >= HealthCheckInterval

(***************************************************************************)
(* StatusSpec: the handlers' check_connection_status and                   *)
(* health_check_connection, pure functions of what subprocess.run does:    *)
(* it raises FileNotFoundError (tool missing) or TimeoutExpired, or it     *)
(* returns the tool's exit status and standard output.  Of the output only *)
(* the substrings the handlers search for matter.                          *)
(***************************************************************************)
Markers == { "established", "connecting", "initiating", "latest handshake" }

ToolMissing == [kind |-> "missing", returncode |-> 0, stdout |-> {}]

ToolTimeout == [kind |-> "timeout", returncode |-> 0, stdout |-> {}]

ToolExit(rc, out) == [kind |-> "exit", returncode |-> rc, stdout |-> out]

\* subprocess.run of a status tool (ipsec status, wg show, pgrep)
StatusRuns ==
    { ToolMissing, ToolTimeout }
        \cup { ToolExit(rc, out) : rc \in 0..1, out \in SUBSET Markers }

\* subprocess.run of ip link, pgrep or ping in a health check: the output is
\* captured and not read
HealthRuns == { ToolMissing, ToolTimeout } \cup { ToolExit(rc, {}) : rc \in 0..1 }

StatusOf(state) == [status |-> state]

HealthOf(b) == [healthy |-> b]

IPSecHandler_check_connection_status(run) ==
    IF run.kind # "exit" THEN StatusOf("down")
    ELSE IF "established" \in run.stdout THEN StatusOf("up")
    ELSE IF "connecting" \in run.stdout \/ "initiating" \in run.stdout
         THEN StatusOf("connecting")
    ELSE StatusOf("down")

WireGuardHandler_check_connection_status(run) ==
    IF run.kind # "exit" THEN StatusOf("down")
    ELSE IF run.returncode # 0 THEN StatusOf("down")
    ELSE IF "latest handshake" \in run.stdout THEN StatusOf("up")
    ELSE StatusOf("down")

OpenVPNHandler_check_connection_status(run) ==
    IF run.kind # "exit" THEN StatusOf("down")
    ELSE IF run.returncode # 0 THEN StatusOf("down")
    ELSE StatusOf("up")

check_connection_status(protocol, run) ==
    CASE protocol = "ipsec"     -> IPSecHandler_check_connection_status(run)
      [] protocol = "wireguard" -> WireGuardHandler_check_connection_status(run)
      [] protocol = "openvpn"   -> OpenVPNHandler_check_connection_status(run)

\* the ping of the remote gateway
PingHealthy(ping) == HealthOf(ping.kind = "exit" /\ ping.returncode = 0)

\* IPsec pings only; WireGuard (ip link show wg0) and OpenVPN (pgrep) first
\* run `first` and return False without pinging when it fails.
health_check_connection(protocol, first, ping) ==
    IF protocol = "ipsec" THEN PingHealthy(ping)
    ELSE IF first.kind # "exit" THEN HealthOf(FALSE)
    ELSE IF first.returncode # 0 THEN HealthOf(FALSE)
    ELSE PingHealthy(ping)

StatusInputs ==
    { [op |-> "status", protocol |-> h, runs |-> <<r>>] :
          h \in HandlerNames, r \in StatusRuns }
    \cup
    { [op |-> "health", protocol |-> h, runs |-> <<r1, r2>>] :
          h \in HandlerNames, r1 \in HealthRuns, r2 \in HealthRuns }

StatusInit ==
    /\ a_subnet = DefaultSubnet
    /\ \E i \in StatusInputs : a_existing = <<i>>
    /\ a_result = NotCalled
    /\ a_pc = "call"
    /\ WriteIdle
    /\ ProbeIdle
    /\ FileIdle
    /\ LoopIdle

\* One call of handler.check_connection_status(conn_name).
CheckConnectionStatus ==
    /\ a_pc = "call"
    /\ a_existing[1].op = "status"
    /\ a_result' = check_connection_status(a_existing[1].protocol,
                                           a_existing[1].runs[1])
    /\ a_pc' = "done"
    /\ UNCHANGED <<a_subnet, a_existing>>
    /\ UNCHANGED <<writeVars, fileVars, loopVars, probeVars>>

\* One call of handler.health_check_connection(conn_name, remote_subnet).
HealthCheckConnection ==
    /\ a_pc = "call"
    /\ a_existing[1].op = "health"
    /\ a_result' = health_check_connection(a_existing[1].protocol,
                                           a_existing[1].runs[1],
                                           a_existing[1].runs[2])
    /\ a_pc' = "done"
    /\ UNCHANGED <<a_subnet, a_existing>>
    /\ UNCHANGED <<writeVars, fileVars, loopVars, probeVars>>

StatusNext == CheckConnectionStatus \/ HealthCheckConnection

StatusSpec == StatusInit /\ [][StatusNext]_vars

\* The tool was missing, timed out or exited with a non-zero status.
ToolFailed(run) == run.kind # "exit" \/ run.returncode # 0

\* The tools the handler runs in the call.
ToolsRun(i) ==
    IF i.op = "status" THEN { i.runs[1] }
    ELSE IF i.protocol = "ipsec" THEN { i.runs[2] }
    ELSE IF ToolFailed(i.runs[1]) THEN { i.runs[1] }
    ELSE { i.runs[1], i.runs[2] }

\* C21: check_connection_status returns one of up, down, connecting and
\* health_check_connection a boolean, and when a tool the call runs is
\* missing, fails or times out they return down and false.
C21_FailedToolMeansDown ==
    a_pc = "done" =>
        LET i == a_existing[1]
        IN  /\ i.op = "status" => a_result \in { StatusOf(s) : s \in ConnStates }
            /\ i.op = "health" => a_result \in { HealthOf(b) : b \in BOOLEAN }
            /\ (\E run \in ToolsRun(i) : ToolFailed(run)) =>
                   a_result = IF i.op = "status" THEN StatusOf("down")
                              ELSE HealthOf(FALSE)

\* C22: when a writer's write, chmod or rename of a temporary file fails,
\* that temporary sibling of the artifact is gone when the writer's call has
\* ended, for every artifact writer.
C22_TmpRemovedOnFailure ==
    [][ (w_fn # "idle" /\ w_outcome' = "raised") =>
            LET sys == SysCalls(w_fn)[w_i]
            IN  (sys.call \in { "write", "chmod", "rename" }
                    /\ sys.path \in TmpPaths)
                => ~fs'[sys.path].exists ]_vars

\* The paths a writer of a secret-bearing artifact opens, writes, chmods or
\* renames.
SecretWritePaths == SecretPaths \cup { Tmp(p) : p \in SecretPaths }

\* C23: when the write of a secret-bearing artifact fails, what reaches the
\* caller (and what the caller reports) is a generic failure, never the
\* original error.
C23_OnlyGenericFailure ==
    w_outcome = "raised" =>
        ~(w_error.type = "OSError" /\ w_error.path \in SecretWritePaths)

\* The secret-bearing artifacts a writer's call writes: the destinations of
\* its renames and the artifacts it writes in place.
SecretsWrittenBy(fn) ==
    { p \in SecretPaths :
        \E k \in 1..Len(SysCalls(fn)) :
            \/ SysCalls(fn)[k].call = "rename" /\ SysCalls(fn)[k].arg = p
            \/ SysCalls(fn)[k].call = "write" /\ SysCalls(fn)[k].path = p }

\* C24: when a write to a secret-bearing path returns successfully, however
\* many writes came before it, the file holds exactly the text of this last
\* write, its mode is 0600 and it has no .tmp sibling.
C24_SecretFileAfterSuccess ==
    [][ (w_fn # "idle" /\ w_outcome' = "returned") =>
            \A p \in SecretsWrittenBy(w_fn) :
                /\ fs'[p].exists
                /\ fs'[p].text = NewText
                /\ fs'[p].complete
                /\ fs'[p].mode = "0600"
                /\ Tmp(p) \in AllPaths => ~fs'[Tmp(p)].exists ]_vars

\* C24's case: a second or later successful write of ipsec.secrets has
\* replaced the file an earlier write left.
C24_SecretRewritten ==
    /\ w_outcome = "returned"
    /\ w_count >= 2
    /\ w_prev[IPSEC_SECRETS].exists
    /\ w_prev[IPSEC_SECRETS].text # NewText
    /\ fs[IPSEC_SECRETS].text = NewText
    /\ fs[IPSEC_SECRETS].mode = "0600"

(***************************************************************************)
(* ExportSpec: the on-demand export (--export-client AIRPORT_ID), a        *)
(* process of its own: it loads the configuration file, resolves the       *)
(* connections and prints the client configuration of the requested site.  *)
(***************************************************************************)
NoOutput == [file |-> "none"]

\* What the process leaves: its exit status and what it printed.
Exit(status, printed) == [exit |-> status, output |-> printed]

\* The identifiers asked for: the configured sites and one that is unknown.
RequestedIds == { AirportIds[a] : a \in Airports } \cup { "kxxx" }

\* The __main__ block with args.export_client set.  An exception that
\* leaves parse_vpn_configs is caught nowhere: the interpreter prints the
\* traceback and exits with status 1.
export_client(exists, loaded, subnet, requested, n, wg_ok) ==
    IF ~exists THEN Exit(1, NoOutput)
    ELSE LET parsed == parse_vpn_configs(subnet, loaded, n, wg_ok)
             found == SelectSeq(parsed.out, LAMBDA c : c.airport_id = requested)
         IN  IF parsed.raised THEN Exit(1, NoOutput)
             ELSE IF found = <<>> THEN Exit(1, NoOutput)
             ELSE IF generate_client_config(found[1]) = MissingCredential
                  THEN Exit(1, NoOutput)
             ELSE Exit(0, generate_client_config(found[1]))

ExportInit ==
    /\ a_subnet \in ParseSubnets
    /\ \E id \in RequestedIds, ok \in BOOLEAN :
          a_existing = <<[export_client |-> id, wg_ok |-> ok]>>
    /\ a_result = NotCalled
    /\ a_pc = "call"
    /\ WriteIdle
    /\ ProbeIdle
    /\ cfg_exists \in BOOLEAN
    /\ cfg_mtime = 1
    /\ cfg \in Configs
    /\ LoopIdle

\* One run of vpn-manager.py --export-client AIRPORT_ID.
ExportClient ==
    /\ a_pc = "call"
    /\ \E n \in 1..KeyDraws :
          a_result' = export_client(cfg_exists, cfg, a_subnet,
                                    a_existing[1].export_client, n,
                                    a_existing[1].wg_ok)
    /\ a_pc' = "done"
    /\ UNCHANGED <<a_subnet, a_existing>>
    /\ UNCHANGED <<writeVars, fileVars, loopVars, probeVars>>

ExportNext == ExportClient

ExportSpec == ExportInit /\ [][ExportNext]_vars

\* The requested site is in the configuration file with VPN enabled.
SiteEnabled(requested) ==
    /\ cfg_exists
    /\ \E a \in Airports : AirportIds[a] = requested /\ cfg[a].enabled

\* C25: the export of a site that exists with VPN enabled prints that site's
\* client configuration; for an unknown site or one with VPN disabled it
\* prints no configuration and exits with a non-zero status.
C25_ExportOfEnabledSite ==
    a_pc = "done" =>
        IF SiteEnabled(a_existing[1].export_client)
        THEN /\ a_result.output # NoOutput
             /\ a_result.output.airport_id = a_existing[1].export_client
        ELSE /\ a_result.output = NoOutput
             /\ a_result.exit # 0

(***************************************************************************)
(* PublishSpec: the status checks and the publishing of one cycle, for     *)
(* every configuration with a resolved connection.                         *)
(***************************************************************************)
PublishInit ==
    /\ AllocIdle
    /\ WriteIdle
    /\ cfg_exists = TRUE
    /\ cfg_mtime = 1
    /\ cfg \in Configs
    /\ running = TRUE
    /\ \E n \in 1..KeyDraws :
          vpn_configs = parse_vpn_configs(DefaultSubnet, cfg, n, TRUE).out
    /\ connections = vpn_configs
    /\ connections # <<>>
    /\ config_mtime = 1
    /\ pc = "check"
    /\ config_changed = FALSE
    /\ config = cfg
    /\ faults = 0
    /\ synth_mtime = 0
    /\ synth_failed = FALSE
    /\ tracked_config = cfg
    /\ now = HealthCheckInterval + 1
    /\ connection_states = [c \in ConnectionNames |-> NoState]
    /\ last_health_check = [c \in ConnectionNames |-> 0]
    /\ probes = [c \in ConnectionNames |-> NoProbe]

PublishNext == CheckConnections \/ PublishHealthChecks

PublishSpec == PublishInit /\ [][PublishNext]_vars

\* The snapshot a reader of the status file gets.
Snapshot == fs[STATUS_FILE].text[1]

\* C26: in every published snapshot each entry's status is up, down or
\* connecting and its health_check is pass, fail or unknown, and the
\* snapshot has exactly one entry for each resolved connection of the cycle
\* that published it.
C26_SnapshotWellFormed ==
    fs[STATUS_FILE].exists =>
        /\ \A k \in DOMAIN Snapshot.connections :
              /\ Snapshot.connections[k].status \in { "up", "down", "connecting" }
              /\ Snapshot.connections[k].health_check \in { "pass", "fail", "unknown" }
        /\ \A c \in NamesOf(connections) :
              Cardinality({ k \in DOMAIN Snapshot.connections :
                              Snapshot.connections[k].connection_name = c }) = 1
        /\ Len(Snapshot.connections) = Len(connections)

\* C26's case: a snapshot of two connections is published, one up whose
\* probe failed and one that is not up.
C26_TwoEntriesPublished ==
    /\ fs[STATUS_FILE].exists
    /\ Len(connections) = 2
    /\ Snapshot.connections[1].status = "up"
    /\ Snapshot.connections[1].health_check = "fail"
    /\ Snapshot.connections[2].status # "up"
    /\ Snapshot.connections[2].health_check = "unknown"

\* C30: the snapshot a cycle publishes holds, for each connection, the
\* state recorded by the status checks of the same cycle, and publishing
\* makes no further status query or health probe.
C30_SnapshotFromProbingStep ==
    [][ (pc = "publish" /\ pc' = "sleep") =>
            /\ probes' = probes
            /\ fs'[STATUS_FILE] # fs[STATUS_FILE] =>
                  \A k \in DOMAIN fs'[STATUS_FILE].text[1].connections :
                      LET entry == fs'[STATUS_FILE].text[1].connections[k]
                      IN  entry.status = connection_states[entry.connection_name]
      ]_vars

(***************************************************************************)
(* ServerSpec: the handlers' generate_server_config, a pure function,      *)
(* applied to each protocol's group of the connections a configuration     *)
(* resolves to, the empty group included.                                  *)
(***************************************************************************)
generate_server_config(protocol, subnet, configs) ==
    CASE protocol = "ipsec"     -> IPSecHandler_generate_server_config(configs)
      [] protocol = "wireguard" -> WireGuardHandler_generate_server_config(subnet, configs)
      [] protocol = "openvpn"   -> OpenVPNHandler_generate_server_config(configs)

\* What the handler of each protocol may be given: the connections it
\* handles among those a configuration resolves to.
ServerInputs ==
    { [protocol |-> p,
       configs |-> SelectSeq(parse_vpn_configs(DefaultSubnet, c, n, TRUE).out,
                             LAMBDA x : x.handler = p)] :
          p \in HandlerNames, c \in Configs, n \in 1..KeyDraws }

ServerInit ==
    /\ a_subnet \in ParseSubnets
    /\ \E i \in ServerInputs : a_existing = <<i>>
    /\ a_result = NotCalled
    /\ a_pc = "call"
    /\ WriteIdle
    /\ ProbeIdle
    /\ FileIdle
    /\ LoopIdle

\* One call of handler.generate_server_config(configs).
GenerateServerConfig ==
    /\ a_pc = "call"
    /\ a_result' = generate_server_config(a_existing[1].protocol, a_subnet,
                                          a_existing[1].configs)
    /\ a_pc' = "done"
    /\ UNCHANGED <<a_subnet, a_existing>>
    /\ UNCHANGED <<writeVars, fileVars, loopVars, probeVars>>

ServerNext == GenerateServerConfig

ServerSpec == ServerInit /\ [][ServerNext]_vars

\* The connection, peer or route stanzas of a server configuration.
StanzasOf(text) ==
    CASE text.file = "ipsec.conf"  -> text.conns
      [] text.file = "wg0.conf"    -> text.peers
      [] text.file = "server.conf" -> text.routes

\* C27: for every protocol, generate_server_config of the empty connection
\* set returns a configuration that is not empty and has no connection,
\* peer or route stanza.
C27_MinimalServerConfig ==
    (a_pc = "done" /\ a_existing[1].configs = <<>>) =>
        /\ a_result.base # <<>>
        /\ StanzasOf(a_result) = <<>>

\* C27's case: the WireGuard handler has generated the configuration of no
\* connection.
C27_EmptySetGenerated ==
    /\ a_pc = "done"
    /\ a_existing[1].configs = <<>>
    /\ a_existing[1].protocol = "wireguard"
    /\ a_result.file = "wg0.conf"

\* The connections of a set by name and protocol (their key material left
\* aside).
Covered(conns) ==
    { <<conns[k].connection_name, conns[k].handler>> : k \in 1..Len(conns) }

\* C28: in a cycle that finds the timestamp unchanged and a connection set
\* resolved before, nothing is synthesized (the cycle goes from parsing to
\* probing and writes no server artifact and no client configuration), and
\* the connections it goes on to probe are the previously resolved ones.
C28_UnchangedCycleSkipsSynthesis ==
    [][ (pc = "parse" /\ ~config_changed /\ connections # <<>>) =>
            /\ pc' \notin { "generate", "clients" }
            /\ fs' = fs
            /\ pc' = "track" => Covered(vpn_configs') = Covered(connections)
      ]_vars

(***************************************************************************)
(* ClockSpec: the loop of one site with a clock that the two sleeps of the *)
(* loop advance; the file may disappear.  The other steps of a cycle take  *)
(* no time.                                                                *)
(***************************************************************************)
MaxClock == 150

\* time.sleep(60) after a failed load and in the loop's except clause
BackoffSeconds == 60

\* Every sleep of the loop taken to last the update interval.
SleepsUpdateInterval(at) == UPDATE_INTERVAL

\* How long the loop sleeps at the end of a cycle and after a failed one.
SleepSeconds(at) == IF at = "backoff" THEN BackoffSeconds ELSE UPDATE_INTERVAL

\* time.sleep(UPDATE_INTERVAL) at the end of a cycle, time.sleep(60) after a
\* failed load or an exception: the clock advances, the loop is at its top.
TimedSleep ==
    /\ pc \in { "sleep", "backoff" }
    /\ now < MaxClock
    /\ now' = now + SleepSeconds(pc)
    /\ pc' = "top"
    /\ UNCHANGED <<connection_states, last_health_check, probes>>
    /\ UNCHANGED <<allocVars, writeVars, fileVars>>
    /\ UNCHANGED <<running, connections, config_mtime, config_changed, config,
                   vpn_configs, faults, synth_mtime, synth_failed, tracked_config>>

ClockNext ==
    \/ CheckConfigChanged
    \/ LoadConfig
    \/ ParseVpnConfigs
    \/ GenerateConfigs
    \/ GenerateClientConfigs
    \/ TrackConnections
    \/ UpdateStatusFile
    \/ TimedSleep
    \/ RemoveConfig

ClockSpec == LoopInit /\ [][ClockNext]_vars

\* C29: a cycle that finds the configuration file missing, or cannot load
\* it, goes to the back-off without synthesis, probing or publishing: the
\* resolved connections and every file stay as they are, and the next cycle
\* starts 60 seconds later.
C29_FailedLoadBacksOff ==
    /\ [][ (pc = "load" /\ ~cfg_exists /\ pc' # pc) => pc' = "backoff" ]_vars
    /\ [][ (pc = "load" /\ pc' = "backoff") =>
             UNCHANGED <<connections, fs, connection_states,
                         last_health_check, probes>> ]_vars
    /\ [][ (pc = "backoff" /\ pc' # pc) =>
             /\ pc' = "top"
             /\ now' = now + 60
             /\ UNCHANGED <<connections, fs, connection_states,
                            last_health_check, probes>> ]_vars

\* C29's case: after a synthesized cycle the file has gone, the load has
\* failed and the back-off is over, with the connections still tracked and
\* the snapshot still published.
C29_BackedOffAfterLoss ==
    /\ pc = "top"
    /\ ~cfg_exists
    /\ config = <<>>
    /\ connections # <<>>
    /\ fs[STATUS_FILE].exists
    /\ now = UPDATE_INTERVAL + BackoffSeconds

(***************************************************************************)
(* Properties of what is recorded and generated for a connection set.      *)
(***************************************************************************)

\* The record of the site a resolved connection was parsed from.
SiteOf(c) == CHOOSE a \in Airports : AirportIds[a] = c.airport_id

\* C31: the protocol recorded for a resolved connection (the key of the
\* grouping, of the client config's file name and of the snapshot's protocol
\* field) is the protocol selector of its site and is one of ipsec,
\* wireguard, openvpn.
C31_ProtocolIsSelector ==
    pc = "track" =>
        \A k \in 1..Len(vpn_configs) :
            /\ vpn_configs[k].protocol = config[SiteOf(vpn_configs[k])].type
            /\ vpn_configs[k].protocol \in HandlerNames

(***************************************************************************)
(* HandlerSpec: what one protocol handler generates for its group of the   *)
(* resolved connections: the server configuration, the secrets file and    *)
(* each connection's client configuration, as generate_configs and         *)
(* generate_client_configs ask for them.                                   *)
(***************************************************************************)

\* What the handler of each protocol may be given: the connections it
\* handles among those a configuration resolves to.
HandlerInputs ==
    { [protocol |-> p, loaded |-> c,
       configs |-> SelectSeq(parse_vpn_configs(DefaultSubnet, c, n, TRUE).out,
                             LAMBDA x : x.handler = p)] :
          p \in HandlerNames, c \in HandlerConfigs, n \in 1..KeyDraws }

\* Nothing generated yet.
NoArtifacts == [server |-> NotCalled, secrets |-> NotCalled, clients |-> <<>>]

HandlerInit ==
    /\ a_subnet = DefaultSubnet
    /\ \E i \in HandlerInputs : a_existing = <<i>>
    /\ a_result = NoArtifacts
    /\ a_pc = "server"
    /\ WriteIdle
    /\ ProbeIdle
    /\ FileIdle
    /\ LoopIdle

\* server_config = handler.generate_server_config(configs)
HandlerServerConfig ==
    /\ a_pc = "server"
    /\ a_result' = [a_result EXCEPT !.server =
                       generate_server_config(a_existing[1].protocol, a_subnet,
                                              a_existing[1].configs)]
    /\ a_pc' = IF a_existing[1].protocol = "wireguard" THEN "clients"
               ELSE "secrets"
    /\ UNCHANGED <<a_subnet, a_existing>>
    /\ UNCHANGED <<writeVars, fileVars, loopVars, probeVars>>

\* secrets_config = handler.generate_secrets_config(configs), or
\* psk_content = handler.generate_psk_file(configs)
HandlerSecrets ==
    /\ a_pc = "secrets"
    /\ \E n \in 1..KeyDraws :
          a_result' = [a_result EXCEPT !.secrets =
             IF a_existing[1].protocol = "ipsec"
             THEN IPSecHandler_generate_secrets_config(a_existing[1].configs)
             ELSE [file |-> "psk.key",
                   psk |-> OpenVPNHandler_generate_psk_file(
                              a_existing[1].configs, n)]]
    /\ a_pc' = "clients"
    /\ UNCHANGED <<a_subnet, a_existing>>
    /\ UNCHANGED <<writeVars, fileVars, loopVars, probeVars>>

\* handler.generate_client_config(conn_name, config) for each connection of
\* the group
HandlerClientConfigs ==
    /\ a_pc = "clients"
    /\ a_result' = [a_result EXCEPT !.clients =
                       [k \in 1..Len(a_existing[1].configs) |->
                          generate_client_config(a_existing[1].configs[k])]]
    /\ a_pc' = "done"
    /\ UNCHANGED <<a_subnet, a_existing>>
    /\ UNCHANGED <<writeVars, fileVars, loopVars, probeVars>>

HandlerNext == HandlerServerConfig \/ HandlerSecrets \/ HandlerClientConfigs

HandlerSpec == HandlerInit /\ [][HandlerNext]_vars

\* C32: all OpenVPN connections share one PSK: the PSK of the server's PSK
\* file is the PSK embedded in every OpenVPN client configuration generated
\* from the same connection set.
C32_OnePskForAllConnections ==
    (a_pc = "done" /\ a_existing[1].protocol = "openvpn") =>
        \A k \in 1..Len(a_result.clients) :
            /\ a_result.clients[k] # MissingCredential
            /\ a_result.clients[k].secret = a_result.secrets.psk

WithPsk(configs) == { k \in 1..Len(configs) : configs[k].psk # NoKey }

ModpBits ==
    [g \in { NoDhGroup } \cup DhGroups |->
        CASE g = "15" -> "3072"
          [] g = "16" -> "4096"
          [] g = "17" -> "6144"
          [] g = "18" -> "8192"
          [] OTHER -> "2048"]

\* C34: in the IPsec server stanza of a connection, the IKE and the ESP
\* proposal carry modp<bits>, bits being 2048, 3072, 4096, 6144, 8192 for the
\* DH groups 14 to 18 of the site's record and 2048 for any other or missing
\* DH group.
C34_ProposalFromDhGroup ==
    (a_pc = "done" /\ a_existing[1].protocol = "ipsec") =>
        \A k \in 1..Len(a_existing[1].configs) :
            LET record == a_existing[1].loaded[SiteOf(a_existing[1].configs[k])]
                stanza == a_result.server.conns[k]
            IN  /\ stanza.conn = a_existing[1].configs[k].connection_name
                /\ stanza.ike = "modp" \o ModpBits[record.dh_group]
                /\ stanza.esp = "modp" \o ModpBits[record.dh_group]

\* C34's case: the stanzas of a site with DH group 16 and of a site with a
\* DH group outside the table, generated.
C34_Group16Generated ==
    /\ a_pc = "done"
    /\ a_existing[1].protocol = "ipsec"
    /\ Len(a_existing[1].configs) = 2
    /\ a_existing[1].loaded[1].dh_group = "16"
    /\ a_existing[1].loaded[2].dh_group = "19"
    /\ a_result.server.conns[1].ike = "modp4096"
    /\ a_result.server.conns[2].esp = "modp2048"

\* The [Peer] stanzas of a WireGuard server configuration that belong to a
\* connection.
PeersOf(text, c) ==
    { i \in 1..Len(text.peers) : text.peers[i].airport_id = c.airport_id }

\* C35: in the WireGuard server configuration a connection without a
\* client public key has no peer stanza, every connection with one has
\* exactly one peer stanza, carrying its public key and its client address,
\* and the configuration is generated whether or not a key is missing.
C35_MissingKeyOmitsOnlyThatPeer ==
    (a_pc = "done" /\ a_existing[1].protocol = "wireguard") =>
        LET configs == a_existing[1].configs
            text == a_result.server
        IN  /\ text.file = "wg0.conf"
            /\ \A k \in 1..Len(configs) :
                  IF configs[k].wireguard.client_public_key = NoKey
                  THEN PeersOf(text, configs[k]) = {}
                  ELSE /\ Cardinality(PeersOf(text, configs[k])) = 1
                       /\ \A i \in PeersOf(text, configs[k]) :
                             /\ text.peers[i].public_key
                                   = configs[k].wireguard.client_public_key
                             /\ text.peers[i].allowed_ips = configs[k].client_ip
            /\ \A i \in 1..Len(text.peers) :
                  \E k \in 1..Len(configs) : i \in PeersOf(text, configs[k])

\* C35's case: the server configuration of two WireGuard connections, the
\* first without a client public key, the second with one.
C35_SecondPeerAfterMissingKey ==
    /\ a_pc = "done"
    /\ a_existing[1].protocol = "wireguard"
    /\ Len(a_existing[1].configs) = 2
    /\ a_existing[1].configs[1].wireguard.client_public_key = NoKey
    /\ a_existing[1].configs[2].wireguard.client_public_key # NoKey
    /\ Len(a_result.server.peers) = 1

(***************************************************************************)
(* HealthSpec: health_check_connection(conn_name, remote_subnet) of each   *)
(* handler, with the address its ping is sent to.                          *)
(***************************************************************************)

\* gateway_ip = '.'.join(ip_parts[:-1]) + '.1', ip_parts being the octets of
\* remote_subnet.split('/')[0]
gateway_ip(remote_subnet) ==
    LET ip_parts == AddrOf(remote_subnet)
    IN  Ip(ip_parts[1], ip_parts[2], ip_parts[3], 1)

\* No ping was sent.
NoPing == [pinged |-> FALSE]

\* ['ping', '-c', '1', '-W', '2', gateway_ip]
PingOf(target) == [pinged |-> TRUE, target |-> target]

\* The ping a health check sends: IPsec pings at once, WireGuard and
\* OpenVPN only after `first` (ip link show wg0, pgrep) has succeeded.
PingSentBy(protocol, remote_subnet, first) ==
    IF protocol # "ipsec" /\ (first.kind # "exit" \/ first.returncode # 0)
    THEN NoPing
    ELSE PingOf(gateway_ip(remote_subnet))

\* The remote subnets of the sites: blocks of 16 to 28 bits, written with
\* their network address.
RemoteSubnets ==
    { cidr \in { Cidr(Ip(192, 168, c, d), p) :
                   c \in { 0, 1, 16 }, d \in { 0, 64, 128 },
                   p \in { 16, 20, 24, 25, 26, 28 } } :
        LoHalf(cidr.addr) % Pow2(32 - cidr.prefix) = 0 }

HealthInputs ==
    { [protocol |-> h, remote_subnet |-> r, runs |-> <<r1, r2>>] :
          h \in HandlerNames, r \in RemoteSubnets,
          r1 \in HealthRuns, r2 \in HealthRuns }

HealthInit ==
    /\ a_subnet = DefaultSubnet
    /\ \E i \in HealthInputs : a_existing = <<i>>
    /\ a_result = NotCalled
    /\ a_pc = "call"
    /\ WriteIdle
    /\ ProbeIdle
    /\ FileIdle
    /\ LoopIdle

\* One call of handler.health_check_connection(conn_name, remote_subnet).
HealthCheckPing ==
    /\ a_pc = "call"
    /\ a_result' =
          [healthy |-> health_check_connection(a_existing[1].protocol,
                                               a_existing[1].runs[1],
                                               a_existing[1].runs[2]).healthy,
           ping |-> PingSentBy(a_existing[1].protocol,
                               a_existing[1].remote_subnet,
                               a_existing[1].runs[1])]
    /\ a_pc' = "done"
    /\ UNCHANGED <<a_subnet, a_existing>>
    /\ UNCHANGED <<writeVars, fileVars, loopVars, probeVars>>

HealthNext == HealthCheckPing

HealthSpec == HealthInit /\ [][HealthNext]_vars

\* The first host address of a CIDR block of 16 bits or more: its network
\* address plus one.
FirstHost(cidr) ==
    LET lo == LoHalf(cidr.addr)
               - (LoHalf(cidr.addr) % Pow2(32 - cidr.prefix)) + 1
    IN  Ip(cidr.addr[1], cidr.addr[2], lo \div 256, lo % 256)

\* C36: the ping of a health check goes to the first host address of the
\* remote subnet, whichever handler performs the check.
C36_ProbeTargetsFirstHost ==
    (a_pc = "done" /\ a_result.ping.pinged) =>
        a_result.ping.target = FirstHost(a_existing[1].remote_subnet)

\* C37: the server public key in the client configuration of every
\* WireGuard connection is the public half of the server private key of the
\* server configuration's [Interface] stanza, also when the keys of several
\* sites were generated independently.
C37_ClientsTrustInterfaceKey ==
    (a_pc = "done" /\ a_existing[1].protocol = "wireguard") =>
        \A k \in 1..Len(a_result.clients) :
            a_result.clients[k] # MissingCredential =>
                a_result.clients[k].peer_public_key
                    = PubKey(a_result.server.private_key)

(***************************************************************************)
(* Properties of the server artifacts across configuration changes.        *)
(***************************************************************************)

\* The server configuration file of a protocol.
ServerConfOf(protocol) ==
    CASE protocol = "ipsec"     -> IPSEC_CONF
      [] protocol = "wireguard" -> WG_CONF
      [] protocol = "openvpn"   -> OPENVPN_CONF

\* The sites a server configuration has a stanza for.
DescribedSites(text) ==
    CASE text.file = "ipsec.conf" ->
            { a \in Airports : \E k \in 1..Len(text.conns) :
                                  text.conns[k].rightid = AirportIds[a] }
      [] text.file = "wg0.conf" ->
            { a \in Airports : \E k \in 1..Len(text.peers) :
                                  text.peers[k].airport_id = AirportIds[a] }
      [] text.file = "server.conf" ->
            { a \in Airports : \E k \in 1..Len(text.routes) :
                                  text.routes[k].subnet = RemoteSubnet(a) }

\* The sites of a loaded configuration that are enabled with a protocol.
EnabledSites(loaded, protocol) ==
    { a \in Airports : loaded[a].enabled /\ loaded[a].type = protocol }

\* C38: after a synthesis pass that a configuration change triggered and in
\* which no write failed, the server configuration of each protocol on disk
\* describes exactly the sites now enabled with that protocol; a protocol
\* whose last connection was removed has its file rewritten without it.
\* (Stated for the files that exist: a violation here is one of the claim.)
C38_ServerConfigsFollowConfig ==
    [][ (pc = "generate" /\ pc' = "clients" /\ config_changed
            /\ faults' = faults) =>
            \A protocol \in HandlerNames :
                fs'[ServerConfOf(protocol)].exists =>
                    DescribedSites(fs'[ServerConfOf(protocol)].text[1])
                        = EnabledSites(config, protocol) ]_vars

\* The artifact pairs: a protocol's server configuration and its secrets
\* file.
ArtifactPairs ==
    { <<IPSEC_CONF, IPSEC_SECRETS>>, <<OPENVPN_CONF, OPENVPN_PSK>> }

\* C39: a protocol's artifact pair is updated all-or-nothing: whenever a
\* writer's call has ended, by returning or by raising, the server
\* configuration and the secrets file on disk hold the texts of the same
\* call, so a failed write of the secrets file never leaves the server
\* configuration updated alone.
C39_ArtifactPairFromOneWrite ==
    w_fn = "idle" =>
        \A pair \in ArtifactPairs :
            ReadOf(fs, pair[1]).text = ReadOf(fs, pair[2]).text

\* The keys of a WireGuard record.
WireguardKeys ==
    { "server_private_key", "server_public_key",
      "client_private_key", "client_public_key" }

\* C40: key generation never overwrites key material a site record already
\* holds: every key present in a WireGuard record is the key of its resolved
\* connection, and only the missing ones are generated.
C40_PresentKeysKept ==
    pc = "track" =>
        \A k \in 1..Len(vpn_configs) :
            LET record == config[SiteOf(vpn_configs[k])]
            IN  record.type = "wireguard" =>
                    \A key \in WireguardKeys :
                        record.wireguard[key] # NoKey =>
                            vpn_configs[k].wireguard[key]
                                = record.wireguard[key]


====
